---- MODULE Spec2Model ----
(***************************************************************************)
(* Model of the temporal value types of fhir-model (date_time.rs): the     *)
(* partial-precision Date, the DateTime union, the Instant, their          *)
(* hand-written equality and ordering, and Date::from_str; of the resolve  *)
(* protocol (stu3/params), of the identifier list of a resource            *)
(* (identifiable.rs) and of the REST client of fhir-sdk (client/r4b).      *)
(***************************************************************************)
EXTENDS Integers, Sequences, FiniteSets, TLC

VARIABLES
    a, b,      \* the two DateTime values under comparison
    c,         \* a third Date, for chains of comparisons (None or Some)
    origin,    \* how a and b were made: "builder" or "parsed"
    s, s2,     \* the strings under parse (the ones a and b were parsed from)
    res,       \* what the last comparison returned
    parsed,    \* what the last parse returned
    input,     \* the value under serialization or narrowing
    conv,      \* what the last serialization or narrowing returned
    resource,  \* the record under resolution
    selector,  \* the selector it is resolved with
    resolved,  \* what the last resolve returned
    this,      \* the resource whose identifiers are placed
    placed,    \* the last place_identifier call
    server,    \* what the FHIR server holds under the one resource id
    call,      \* the last call of the client, with the request it sent
    failure,   \* the client error asked whether to retry
    retry      \* what should_retry answered

vars == <<a, b, c, origin, s, s2, res, parsed, input, conv, resource,
          selector, resolved, this, placed, server, call, failure, retry>>

\* The variables of the comparisons, of the conversions and of the resolution.
compareVars == <<a, b, c, res>>
convertVars == <<input, conv>>
resolveVars == <<resource, selector, resolved>>
identifierVars == <<this, placed>>
clientVars == <<server, call, failure, retry>>

(***************************************************************************)
(* Bounds of the comparison domain.                                        *)
(***************************************************************************)
YearSpan == 1
MaxMonth == 2
MaxDay == 2
MaxOffset == 1

Years == 2023 .. (2023 + YearSpan)
Months == 1 .. MaxMonth
Days == 1 .. MaxDay
\* Hours of the day an instant is drawn with: the first and the last one, so
\* that an offset of one hour moves the UTC date across midnight.
Hours == {0, 23}
\* UTC offsets, in whole hours: west, none, east.
Offsets == {0 - MaxOffset, 0, MaxOffset}


(***************************************************************************)
(* std::cmp::Ordering and Option.                                          *)
(***************************************************************************)
Less == "Less"
Equal == "Equal"
Greater == "Greater"
Panic == "panic"

Some(v) == <<v>>
None == <<>>

\* Option::unwrap: panics on None.
Unwrap(o) == IF o = None THEN Panic ELSE o[1]

\* Ord::cmp of two integers (i32, u8).
IntCmp(l, r) == IF l < r THEN Less ELSE IF l > r THEN Greater ELSE Equal

\* Ordering::reverse; a panic stays a panic.
Reverse(o) ==
    CASE o = Less -> Greater
      [] o = Greater -> Less
      [] OTHER -> o

(***************************************************************************)
(* time::Date (a valid calendar date) and time::OffsetDateTime.            *)
(***************************************************************************)
IsLeapYear(y) == (y % 4 = 0) /\ ((y % 100 # 0) \/ (y % 400 = 0))

DaysInMonth(y, m) ==
    CASE m \in {1, 3, 5, 7, 8, 10, 12} -> 31
      [] m \in {4, 6, 9, 11} -> 30
      [] OTHER -> IF IsLeapYear(y) THEN 29 ELSE 28

DaysInYear(y) == IF IsLeapYear(y) THEN 366 ELSE 365

RECURSIVE DaysBeforeMonth(_, _)
DaysBeforeMonth(y, m) ==
    IF m <= 1 THEN 0 ELSE DaysBeforeMonth(y, m - 1) + DaysInMonth(y, m - 1)

\* Days from 2000-01-01 to the first day of year y.
RECURSIVE DaysBeforeYear(_)
DaysBeforeYear(y) ==
    IF y = 2000 THEN 0
    ELSE IF y > 2000 THEN DaysBeforeYear(y - 1) + DaysInYear(y - 1)
    ELSE DaysBeforeYear(y + 1) - DaysInYear(y)

\* The day number of a calendar date.
DayNumber(t) == DaysBeforeYear(t.y) + DaysBeforeMonth(t.y, t.m) + (t.d - 1)

RawDate(y, m, d) == [y |-> y, m |-> m, d |-> d]

\* Ord for time::Date: chronological.
RawDateCmp(l, r) ==
    IF l.y # r.y THEN IntCmp(l.y, r.y)
    ELSE IF l.m # r.m THEN IntCmp(l.m, r.m)
    ELSE IntCmp(l.d, r.d)

\* An OffsetDateTime: the local calendar date and time of day, and the UTC
\* offset (in seconds) they are written in.
OffsetDateTime(t, h, mi, sec, ns, o) ==
    [date |-> t, hour |-> h, minute |-> mi, second |-> sec, nanosecond |-> ns,
     offset |-> o]

\* OffsetDateTime::date: the calendar date in the value's own offset.
OdtDate(dt) == dt.date

\* The absolute moment, in seconds (the nanosecond is not affected by the
\* offset).
OdtAbsolute(dt) ==
    DayNumber(dt.date) * 86400 + dt.hour * 3600 + dt.minute * 60 + dt.second
        - dt.offset

\* PartialEq and Ord for OffsetDateTime: on the absolute moment.
OdtEq(l, r) ==
    OdtAbsolute(l) = OdtAbsolute(r) /\ l.nanosecond = r.nanosecond
OdtCmp(l, r) ==
    IF OdtAbsolute(l) # OdtAbsolute(r)
    THEN IntCmp(OdtAbsolute(l), OdtAbsolute(r))
    ELSE IntCmp(l.nanosecond, r.nanosecond)

(***************************************************************************)
(* Date, Instant and DateTime.                                             *)
(***************************************************************************)
Year(y) == [tag |-> "Year", year |-> y]
YearMonth(y, m) == [tag |-> "YearMonth", year |-> y, month |-> m]
FullDate(t) == [tag |-> "Date", date |-> t]

\* Instant is a transparent wrapper of an OffsetDateTime with derived
\* PartialEq and Ord.
InstantEq(l, r) == OdtEq(l, r)
InstantCmp(l, r) == OdtCmp(l, r)

DateTimeOfDate(d) == [tag |-> "Date", v |-> d]
DateTimeOfInstant(i) == [tag |-> "DateTime", v |-> i]

\* DateEqRaw with a Year or YearMonth read as the first day of its period.
DateEqRaw_PeriodStart(self, other) ==
    CASE self.tag = "Year" -> RawDate(self.year, 1, 1) = other
      [] self.tag = "YearMonth" -> RawDate(self.year, self.month, 1) = other
      [] OTHER -> self.date = other

\* impl PartialEq<time::Date> for Date
DateEqRaw(self, other) ==
    CASE self.tag = "Year" -> self.year = other.y
      [] self.tag = "YearMonth" -> self.year = other.y /\ self.month = other.m
      [] OTHER -> self.date = other

\* impl PartialEq<Date> for time::Date
RawEqDate(self, other) ==
    CASE other.tag = "Year" -> self.y = other.year
      [] other.tag = "YearMonth" -> self.y = other.year /\ self.m = other.month
      [] OTHER -> self = other.date

\* DatePartialCmpRaw with the YearMonth arm stopping at the year.
DatePartialCmpRaw_YearOnly(self, other) ==
    CASE self.tag = "Year" -> Some(IntCmp(self.year, other.y))
      [] self.tag = "YearMonth" -> Some(IntCmp(self.year, other.y))
      [] OTHER -> Some(RawDateCmp(self.date, other))

\* impl PartialOrd<time::Date> for Date
DatePartialCmpRaw(self, other) ==
    CASE self.tag = "Year" -> Some(IntCmp(self.year, other.y))
      [] self.tag = "YearMonth" ->
            IF self.year < other.y THEN Some(Less)
            ELSE IF self.year > other.y THEN Some(Greater)
            ELSE Some(IntCmp(self.month, other.m))
      [] OTHER -> Some(RawDateCmp(self.date, other))

\* RawPartialCmpDate copied from its mirror without swapping the operands.
RawPartialCmpDate_NotMirrored(self, other) ==
    CASE other.tag = "Year" -> Some(IntCmp(other.year, self.y))
      [] other.tag = "YearMonth" ->
            IF other.year < self.y THEN Some(Less)
            ELSE IF other.year > self.y THEN Some(Greater)
            ELSE Some(IntCmp(other.month, self.m))
      [] OTHER -> Some(RawDateCmp(self, other.date))

\* impl PartialOrd<Date> for time::Date
RawPartialCmpDate(self, other) ==
    CASE other.tag = "Year" -> Some(IntCmp(self.y, other.year))
      [] other.tag = "YearMonth" ->
            IF self.y < other.year THEN Some(Less)
            ELSE IF self.y > other.year THEN Some(Greater)
            ELSE Some(IntCmp(self.m, other.month))
      [] OTHER -> Some(RawDateCmp(self, other.date))

\* DateCmp as a strict total order that puts a Year before the YearMonths of
\* that year.
DateCmp_CoarserFirst(self, other) ==
    CASE self.tag = "Date" -> Unwrap(RawPartialCmpDate(self.date, other))
      [] other.tag = "Date" -> Unwrap(DatePartialCmpRaw(self, other.date))
      [] self.tag = "Year" /\ other.tag = "Year" -> IntCmp(self.year, other.year)
      [] self.tag = "Year" /\ other.tag = "YearMonth" ->
            IF self.year = other.year THEN Less ELSE IntCmp(self.year, other.year)
      [] self.tag = "YearMonth" /\ other.tag = "Year" ->
            IF self.year = other.year THEN Greater ELSE IntCmp(self.year, other.year)
      [] OTHER ->
            IF IntCmp(self.year, other.year) = Equal
            THEN IntCmp(self.month, other.month)
            ELSE IntCmp(self.year, other.year)

\* impl Ord for Date
DateCmp(self, other) ==
    CASE self.tag = "Date" -> Unwrap(RawPartialCmpDate(self.date, other))
      [] other.tag = "Date" -> Unwrap(DatePartialCmpRaw(self, other.date))
      [] self.tag = "Year" /\ other.tag = "Year" -> IntCmp(self.year, other.year)
      [] self.tag = "Year" /\ other.tag = "YearMonth" -> IntCmp(self.year, other.year)
      [] self.tag = "YearMonth" /\ other.tag = "Year" -> IntCmp(self.year, other.year)
      [] OTHER ->
            IF IntCmp(self.year, other.year) = Equal
            THEN IntCmp(self.month, other.month)
            ELSE IntCmp(self.year, other.year)

\* impl PartialOrd for Date
DatePartialCmp(self, other) == Some(DateCmp(self, other))

\* impl PartialEq for Date
DateEq(self, other) ==
    CASE self.tag = "Date" -> RawEqDate(self.date, other)
      [] other.tag = "Date" -> DateEqRaw(self, other.date)
      [] self.tag = "Year" /\ other.tag = "Year" -> self.year = other.year
      [] self.tag = "Year" /\ other.tag = "YearMonth" -> self.year = other.year
      [] self.tag = "YearMonth" /\ other.tag = "Year" -> self.year = other.year
      [] OTHER -> self.year = other.year /\ self.month = other.month

\* impl PartialEq<OffsetDateTime> for Date
DateEqOdt(self, other) ==
    CASE self.tag = "Year" -> self.year = OdtDate(other).y
      [] self.tag = "YearMonth" ->
            self.year = OdtDate(other).y /\ self.month = OdtDate(other).m
      [] OTHER -> self.date = OdtDate(other)

\* impl PartialEq<Date> for OffsetDateTime
OdtEqDate(self, other) ==
    CASE other.tag = "Year" -> other.year = OdtDate(self).y
      [] other.tag = "YearMonth" ->
            other.year = OdtDate(self).y /\ other.month = OdtDate(self).m
      [] OTHER -> other.date = OdtDate(self)

\* DateTimeCmp with a full Date read as midnight of that day.
DateTimeCmp_MidnightDate(self, other) ==
    CASE self.tag = "Date" /\ other.tag = "Date" -> DateCmp(self.v, other.v)
      [] self.tag = "Date" /\ other.tag = "DateTime" ->
            IF self.v.tag = "Date" /\ self.v.date = OdtDate(other.v)
                /\ other.v.hour > 0
            THEN Less
            ELSE Unwrap(DatePartialCmpRaw(self.v, OdtDate(other.v)))
      [] self.tag = "DateTime" /\ other.tag = "Date" ->
            IF other.v.tag = "Date" /\ other.v.date = OdtDate(self.v)
                /\ self.v.hour > 0
            THEN Greater
            ELSE Unwrap(RawPartialCmpDate(OdtDate(self.v), other.v))
      [] OTHER -> InstantCmp(self.v, other.v)

\* DateTimeCmp with two Instants compared by the date and time they show.
DateTimeCmp_LocalClock(self, other) ==
    CASE self.tag = "Date" /\ other.tag = "Date" -> DateCmp(self.v, other.v)
      [] self.tag = "Date" /\ other.tag = "DateTime" ->
            Unwrap(DatePartialCmpRaw(self.v, OdtDate(other.v)))
      [] self.tag = "DateTime" /\ other.tag = "Date" ->
            Unwrap(RawPartialCmpDate(OdtDate(self.v), other.v))
      [] OTHER ->
            IF self.v.date # other.v.date
            THEN RawDateCmp(self.v.date, other.v.date)
            ELSE IntCmp(self.v.hour, other.v.hour)

\* impl Ord for DateTime
DateTimeCmp(self, other) ==
    CASE self.tag = "Date" /\ other.tag = "Date" -> DateCmp(self.v, other.v)
      [] self.tag = "Date" /\ other.tag = "DateTime" ->
            Unwrap(DatePartialCmpRaw(self.v, OdtDate(other.v)))
      [] self.tag = "DateTime" /\ other.tag = "Date" ->
            Unwrap(RawPartialCmpDate(OdtDate(self.v), other.v))
      [] OTHER -> InstantCmp(self.v, other.v)

\* impl PartialOrd for DateTime
DateTimePartialCmp(self, other) == Some(DateTimeCmp(self, other))

\* DateTimeEq as #[derive(PartialEq)] would give it: same variant, same fields.
DateTimeEq_Derived(self, other) == self = other

\* impl PartialEq for DateTime
DateTimeEq(self, other) ==
    CASE self.tag = "Date" /\ other.tag = "Date" -> DateEq(self.v, other.v)
      [] self.tag = "Date" /\ other.tag = "DateTime" -> DateEqOdt(self.v, other.v)
      [] self.tag = "DateTime" /\ other.tag = "Date" -> OdtEqDate(self.v, other.v)
      [] OTHER -> OdtEq(self.v, other.v)

\* impl PartialEq<OffsetDateTime> for DateTime
DateTimeEqOdt(self, other) ==
    CASE self.tag = "Date" -> DateEqRaw(self.v, OdtDate(other))
      [] OTHER -> OdtEq(self.v, other)

\* impl PartialEq<DateTime> for OffsetDateTime
OdtEqDateTime(self, other) ==
    CASE other.tag = "Date" -> RawEqDate(OdtDate(self), other.v)
      [] OTHER -> OdtEq(self, other.v)

\* impl PartialOrd<OffsetDateTime> for DateTime
DateTimePartialCmpOdt(self, other) ==
    CASE self.tag = "Date" -> DatePartialCmpRaw(self.v, OdtDate(other))
      [] OTHER -> Some(OdtCmp(self.v, other))

\* impl PartialOrd<DateTime> for OffsetDateTime
OdtPartialCmpDateTime(self, other) ==
    CASE other.tag = "Date" -> RawPartialCmpDate(OdtDate(self), other.v)
      [] OTHER -> Some(OdtCmp(self, other.v))

\* The comparison operators <, ==, > as Rust derives them from partial_cmp
\* and eq.
Lt(o) == o = Some(Less)
Gt(o) == o = Some(Greater)

(***************************************************************************)
(* Strings are sequences of characters; Result is Ok(v) or Err(e).         *)
(***************************************************************************)
Ok(v) == [ok |-> TRUE, v |-> v]
Err(e) == [ok |-> FALSE, err |-> e]

DigitChars == {"0", "1", "2", "3", "4", "5", "6", "7", "8", "9"}

IsDigit(ch) == ch \in DigitChars

DigitValue(ch) ==
    CASE ch = "0" -> 0 [] ch = "1" -> 1 [] ch = "2" -> 2 [] ch = "3" -> 3
      [] ch = "4" -> 4 [] ch = "5" -> 5 [] ch = "6" -> 6 [] ch = "7" -> 7
      [] ch = "8" -> 8 [] OTHER -> 9

AllDigits(str) == \A i \in 1 .. Len(str) : IsDigit(str[i])

\* The decimal value of a sequence of digits.
RECURSIVE DigitsValue(_)
DigitsValue(str) ==
    IF str = <<>> THEN 0
    ELSE DigitsValue(SubSeq(str, 1, Len(str) - 1)) * 10 + DigitValue(str[Len(str)])

\* Whether str holds n digits from position i on.
DigitsAt(str, i, n) ==
    /\ i + n - 1 <= Len(str)
    /\ \A k \in i .. (i + n - 1) : IsDigit(str[k])

CharAt(str, i, chars) == i <= Len(str) /\ str[i] \in chars

Contains(str, ch) == \E i \in 1 .. Len(str) : str[i] = ch

\* str::split: the segments between the separators; never empty.
RECURSIVE Split(_, _)
Split(str, sep) ==
    IF ~Contains(str, sep) THEN <<str>>
    ELSE LET i == CHOOSE k \in 1 .. Len(str) :
                    str[k] = sep /\ \A j \in 1 .. (k - 1) : str[j] # sep
         IN <<SubSeq(str, 1, i - 1)>> \o Split(SubSeq(str, i + 1, Len(str)), sep)

\* str::split_once: the text before and after the first separator.
SplitOnce(str, sep) ==
    IF ~Contains(str, sep) THEN None
    ELSE LET i == CHOOSE k \in 1 .. Len(str) :
                    str[k] = sep /\ \A j \in 1 .. (k - 1) : str[j] # sep
         IN Some(<<SubSeq(str, 1, i - 1), SubSeq(str, i + 1, Len(str))>>)

I32Max == 2147483647
U8Max == 255

\* str::parse::<i32>: an optional sign and at least one digit.
ParseI32(str) ==
    LET signed == Len(str) >= 1 /\ str[1] \in {"+", "-"}
        digits == IF signed THEN SubSeq(str, 2, Len(str)) ELSE str
        value == IF signed /\ str[1] = "-" THEN 0 - DigitsValue(digits)
                 ELSE DigitsValue(digits)
    IN IF str = <<>> THEN Err("Empty")
       ELSE IF digits = <<>> \/ ~AllDigits(digits) THEN Err("InvalidDigit")
       ELSE IF value > I32Max THEN Err("PosOverflow")
       ELSE IF value < 0 - I32Max - 1 THEN Err("NegOverflow")
       ELSE Ok(value)

\* str::parse::<u8>: an optional '+' and at least one digit.
ParseU8(str) ==
    LET signed == Len(str) >= 1 /\ str[1] = "+"
        digits == IF signed THEN SubSeq(str, 2, Len(str)) ELSE str
    IN IF str = <<>> THEN Err("Empty")
       ELSE IF digits = <<>> \/ ~AllDigits(digits) THEN Err("InvalidDigit")
       ELSE IF DigitsValue(digits) > U8Max THEN Err("PosOverflow")
       ELSE Ok(DigitsValue(digits))

\* TryFrom<u8> for time::Month.
MonthTryFrom(n) == IF n \in 1 .. 12 THEN Ok(n) ELSE Err("ComponentRange")

\* time::Date::parse with the format [year]-[month]-[day]: an optional sign
\* and four digits, two digits, two digits, nothing after them, and a date of
\* the calendar.
ParseFullDate(str) ==
    LET off == IF CharAt(str, 1, {"+", "-"}) THEN 1 ELSE 0
        year == DigitsValue(SubSeq(str, off + 1, off + 4))
        month == DigitsValue(SubSeq(str, off + 6, off + 7))
        day == DigitsValue(SubSeq(str, off + 9, off + 10))
    IN IF ~DigitsAt(str, off + 1, 4) THEN Err("InvalidComponent")
       ELSE IF ~CharAt(str, off + 5, {"-"}) THEN Err("InvalidLiteral")
       ELSE IF ~DigitsAt(str, off + 6, 2) \/ month \notin 1 .. 12
            THEN Err("InvalidComponent")
       ELSE IF ~CharAt(str, off + 8, {"-"}) THEN Err("InvalidLiteral")
       ELSE IF ~DigitsAt(str, off + 9, 2) \/ day \notin 1 .. 31
            THEN Err("InvalidComponent")
       ELSE IF Len(str) > off + 10 THEN Err("UnexpectedTrailingCharacters")
       ELSE IF day > DaysInMonth(year, month) THEN Err("TryFromParsed")
       ELSE Ok(RawDate(IF CharAt(str, 1, {"-"}) THEN 0 - year ELSE year, month, day))

\* The number of digits of str from position i on.
RECURSIVE DigitRun(_, _)
DigitRun(str, i) ==
    IF i <= Len(str) /\ IsDigit(str[i]) THEN 1 + DigitRun(str, i + 1) ELSE 0

RECURSIVE Pow10(_)
Pow10(n) == IF n <= 0 THEN 1 ELSE 10 * Pow10(n - 1)

\* The nanoseconds a fraction of a second denotes: its first nine digits.
FractionNanos(digits) ==
    IF Len(digits) >= 9 THEN DigitsValue(SubSeq(digits, 1, 9))
    ELSE DigitsValue(digits) * Pow10(9 - Len(digits))

\* OffsetDateTime::parse with Rfc3339: YYYY-MM-DDThh:mm:ss[.fraction] and an
\* offset, Z or +hh:mm or -hh:mm; every component in its range.
ParseRfc3339(str) ==
    LET year == DigitsValue(SubSeq(str, 1, 4))
        month == DigitsValue(SubSeq(str, 6, 7))
        day == DigitsValue(SubSeq(str, 9, 10))
        hour == DigitsValue(SubSeq(str, 12, 13))
        minute == DigitsValue(SubSeq(str, 15, 16))
        second == DigitsValue(SubSeq(str, 18, 19))
        hasFraction == CharAt(str, 20, {"."})
        fractionLen == IF hasFraction THEN DigitRun(str, 21) ELSE 0
        nanos == IF hasFraction
                 THEN FractionNanos(SubSeq(str, 21, 20 + fractionLen))
                 ELSE 0
        \* where the offset starts
        p == IF hasFraction THEN 21 + fractionLen ELSE 20
        zulu == CharAt(str, p, {"Z", "z"})
        offHour == DigitsValue(SubSeq(str, p + 1, p + 2))
        offMinute == DigitsValue(SubSeq(str, p + 4, p + 5))
        offSeconds == offHour * 3600 + offMinute * 60
        shapeOk ==
            /\ DigitsAt(str, 1, 4) /\ CharAt(str, 5, {"-"})
            /\ DigitsAt(str, 6, 2) /\ CharAt(str, 8, {"-"})
            /\ DigitsAt(str, 9, 2) /\ CharAt(str, 11, {"T", "t"})
            /\ DigitsAt(str, 12, 2) /\ CharAt(str, 14, {":"})
            /\ DigitsAt(str, 15, 2) /\ CharAt(str, 17, {":"})
            /\ DigitsAt(str, 18, 2)
            /\ hasFraction => fractionLen >= 1
            /\ \/ zulu /\ Len(str) = p
               \/ /\ CharAt(str, p, {"+", "-"})
                  /\ DigitsAt(str, p + 1, 2) /\ CharAt(str, p + 3, {":"})
                  /\ DigitsAt(str, p + 4, 2) /\ Len(str) = p + 5
        rangeOk ==
            /\ month \in 1 .. 12 /\ day \in 1 .. DaysInMonth(year, month)
            /\ hour <= 23 /\ minute <= 59 /\ second <= 59
            /\ zulu \/ (offHour <= 23 /\ offMinute <= 59)
    IN IF ~shapeOk THEN Err("ParseFromDescription")
       ELSE IF ~rangeOk THEN Err("TryFromParsed")
       ELSE Ok(OffsetDateTime(RawDate(year, month, day), hour, minute, second,
                  nanos,
                  IF zulu THEN 0
                  ELSE IF str[p] = "-" THEN 0 - offSeconds ELSE offSeconds))

(***************************************************************************)
(* DateFormatError and the FromStr implementations.                        *)
(***************************************************************************)
\* The variants date_time.rs names.
StringSplit == [kind |-> "StringSplit"]
InvalidDate == [kind |-> "InvalidDate"]

\* The conversions the ? operator applies: each source error becomes a
\* variant of its own (bad integer segment, invalid month/day, invalid
\* calendar date or shape).
FromParseIntError(e) == [kind |-> "IntParsing", cause |-> e]
FromComponentRange(e) == [kind |-> "ComponentRange", cause |-> e]
FromParse(e) == [kind |-> "Parse", cause |-> e]

\* DateFromStr dispatching on the number of '-' instead of the number of
\* segments.
DateFromStr_DashCount(str) ==
    LET count == Len(Split(str, "-")) - 1 IN
    CASE count = 1 ->
            LET year == ParseI32(str)
            IN IF year.ok THEN Ok(Year(year.v))
               ELSE Err(FromParseIntError(year.err))
      [] count = 2 ->
            LET parts == SplitOnce(str, "-") IN
            IF parts = None THEN Err(StringSplit)
            ELSE LET year == ParseI32(parts[1][1])
                     month == ParseU8(parts[1][2])
                 IN IF ~year.ok THEN Err(FromParseIntError(year.err))
                    ELSE IF ~month.ok THEN Err(FromParseIntError(month.err))
                    ELSE IF ~MonthTryFrom(month.v).ok
                         THEN Err(FromComponentRange(MonthTryFrom(month.v).err))
                    ELSE Ok(YearMonth(year.v, MonthTryFrom(month.v).v))
      [] count = 3 ->
            LET date == ParseFullDate(str)
            IN IF date.ok THEN Ok(FullDate(date.v)) ELSE Err(FromParse(date.err))
      [] OTHER -> Err(InvalidDate)

\* DateFromStr with a month outside 1..12 clamped into it.
DateFromStr_MonthClamped(str) ==
    LET count == Len(Split(str, "-")) IN
    CASE count = 1 ->
            LET year == ParseI32(str)
            IN IF year.ok THEN Ok(Year(year.v))
               ELSE Err(FromParseIntError(year.err))
      [] count = 2 ->
            LET parts == SplitOnce(str, "-") IN
            IF parts = None THEN Err(StringSplit)
            ELSE LET year == ParseI32(parts[1][1])
                     month == ParseU8(parts[1][2])
                 IN IF ~year.ok THEN Err(FromParseIntError(year.err))
                    ELSE IF ~month.ok THEN Err(FromParseIntError(month.err))
                    ELSE Ok(YearMonth(year.v,
                                IF month.v < 1 THEN 1
                                ELSE IF month.v > 12 THEN 12 ELSE month.v))
      [] count = 3 ->
            LET date == ParseFullDate(str)
            IN IF date.ok THEN Ok(FullDate(date.v)) ELSE Err(FromParse(date.err))
      [] OTHER -> Err(InvalidDate)

\* impl FromStr for Date
DateFromStr(str) ==
    LET count == Len(Split(str, "-")) IN
    CASE count = 1 ->
            LET year == ParseI32(str)
            IN IF year.ok THEN Ok(Year(year.v))
               ELSE Err(FromParseIntError(year.err))
      [] count = 2 ->
            LET parts == SplitOnce(str, "-") IN
            IF parts = None THEN Err(StringSplit)
            ELSE LET year == ParseI32(parts[1][1])
                     month == ParseU8(parts[1][2])
                 IN IF ~year.ok THEN Err(FromParseIntError(year.err))
                    ELSE IF ~month.ok THEN Err(FromParseIntError(month.err))
                    ELSE IF ~MonthTryFrom(month.v).ok
                         THEN Err(FromComponentRange(MonthTryFrom(month.v).err))
                    ELSE Ok(YearMonth(year.v, MonthTryFrom(month.v).v))
      [] count = 3 ->
            LET date == ParseFullDate(str)
            IN IF date.ok THEN Ok(FullDate(date.v)) ELSE Err(FromParse(date.err))
      [] OTHER -> Err(InvalidDate)

\* impl FromStr for Instant
InstantFromStr(str) == ParseRfc3339(str)

\* impl FromStr for DateTime
DateTimeFromStr(str) ==
    IF Contains(str, "T")
    THEN LET instant == InstantFromStr(str)
         IN IF instant.ok THEN Ok(DateTimeOfInstant(instant.v))
            ELSE Err(FromParse(instant.err))
    ELSE LET date == DateFromStr(str)
         IN IF date.ok THEN Ok(DateTimeOfDate(date.v)) ELSE Err(date.err)

(***************************************************************************)
(* The values under comparison.                                            *)
(***************************************************************************)
RawDates ==
    {RawDate(y, m, d) : y \in Years, m \in Months,
                        d \in {x \in Days : x <= 28}}

DateValues ==
    {Year(y) : y \in Years}
        \cup {YearMonth(y, m) : y \in Years, m \in Months}
        \cup {FullDate(t) : t \in RawDates}

Instants ==
    {OffsetDateTime(t, h, 0, 0, 0, o * 3600) :
        t \in RawDates, h \in Hours, o \in Offsets}

DateTimeValues ==
    {DateTimeOfDate(d) : d \in DateValues}
        \cup {DateTimeOfInstant(i) : i \in Instants}

\* "2024-02"
Str202402 == <<"2", "0", "2", "4", "-", "0", "2">>
\* "2024-03"
Str202403 == <<"2", "0", "2", "4", "-", "0", "3">>
\* "2024-02-15T13:00:00Z"
StrInstantZ == <<"2", "0", "2", "4", "-", "0", "2", "-", "1", "5", "T", "1", "3", ":", "0", "0", ":", "0", "0", "Z">>
\* "2024-03-01T00:30:00+02:00": the last day of February in UTC
StrInstantPlus == <<"2", "0", "2", "4", "-", "0", "3", "-", "0", "1", "T", "0", "0", ":", "3", "0", ":", "0", "0", "+", "0", "2", ":", "0", "0">>
\* "2024-02-29T23:30:00-01:00": the first day of March in UTC
StrInstantMinus == <<"2", "0", "2", "4", "-", "0", "2", "-", "2", "9", "T", "2", "3", ":", "3", "0", ":", "0", "0", "-", "0", "1", ":", "0", "0">>

\* Strings that DateTime::from_str accepts.
ScenarioStrings ==
    {Str202402, Str202403, StrInstantZ, StrInstantPlus, StrInstantMinus}

NoValue == [tag |-> "none"]
NoResult == [op |-> "none"]

\* The identifier list and the client are not in use.
OthersIdle ==
    /\ this = NoValue /\ placed = NoResult
    /\ server = NoValue /\ call = NoResult
    /\ failure = NoValue /\ retry = NoResult

InitCompare ==
    /\ \/ /\ origin = "builder"
          /\ s = <<>> /\ s2 = <<>>
          /\ a \in DateTimeValues /\ b \in DateTimeValues
       \/ /\ origin = "parsed"
          /\ s \in ScenarioStrings /\ s2 \in ScenarioStrings
          /\ DateTimeFromStr(s).ok /\ DateTimeFromStr(s2).ok
          /\ a = DateTimeFromStr(s).v /\ b = DateTimeFromStr(s2).v
    /\ c \in IF a.tag = "Date" /\ b.tag = "Date"
             THEN {None} \cup {Some(d) : d \in DateValues}
             ELSE IF a.tag = "DateTime" /\ b.tag = "Date" /\ b.v.tag = "Date"
             THEN {None} \cup {Some(i) : i \in {x \in Instants :
                                                  OdtDate(x) = b.v.date}}
             ELSE {None}
    /\ res = NoResult
    /\ parsed = NoResult
    /\ input = NoValue /\ conv = NoResult
    /\ resource = NoValue /\ selector = "none" /\ resolved = NoResult
    /\ OthersIdle

\* Date == Date, Date < Date: a caller compares two Dates, in both orders.
CompareDate ==
    /\ res = NoResult
    /\ a.tag = "Date" /\ b.tag = "Date"
    /\ res' = [op |-> "Date",
               eq |-> DateEq(a.v, b.v), eqRev |-> DateEq(b.v, a.v),
               ord |-> DatePartialCmp(a.v, b.v),
               ordRev |-> DatePartialCmp(b.v, a.v)]
    /\ UNCHANGED <<a, b, c, origin, s, s2, parsed, convertVars, resolveVars,
                 identifierVars, clientVars>>

\* A caller compares three Dates pairwise (a sort does).
CompareDateChain ==
    /\ res = NoResult
    /\ a.tag = "Date" /\ b.tag = "Date" /\ c # None
    /\ res' = [op |-> "DateChain",
               eqAB |-> DateEq(a.v, b.v), eqBC |-> DateEq(b.v, c[1]),
               eqAC |-> DateEq(a.v, c[1]),
               ordAB |-> DatePartialCmp(a.v, b.v),
               ordBC |-> DatePartialCmp(b.v, c[1]),
               ordAC |-> DatePartialCmp(a.v, c[1])]
    /\ UNCHANGED <<a, b, c, origin, s, s2, parsed, convertVars, resolveVars,
                 identifierVars, clientVars>>

\* DateHash feeding the year alone.
DateHash_ByYear(self) ==
    CASE self.tag = "Year" -> <<self.year>>
      [] self.tag = "YearMonth" -> <<self.year>>
      [] OTHER -> <<self.date.y>>

\* #[derive(Hash)] for Date: what is fed to the hasher, the discriminant
\* of the variant and then its fields in order (a time::Date feeds its year
\* and its day of the year).
DateHash(self) ==
    CASE self.tag = "Year" -> <<0, self.year>>
      [] self.tag = "YearMonth" -> <<1, self.year, self.month>>
      [] OTHER -> <<2, self.date.y,
                    DaysBeforeMonth(self.date.y, self.date.m) + self.date.d>>

\* #[derive(Hash)] for DateTime and for Instant (an OffsetDateTime feeds the
\* moment it names).
DateTimeHash(self) ==
    IF self.tag = "Date" THEN <<0>> \o DateHash(self.v)
    ELSE <<1, OdtAbsolute(self.v), self.v.nanosecond>>

\* A caller puts two values into a hashed collection: each is hashed and
\* the two are compared.
HashDateTime ==
    /\ res = NoResult
    /\ res' = [op |-> "Hash",
               eq |-> DateTimeEq(a, b),
               hash |-> DateTimeHash(a), hashOther |-> DateTimeHash(b),
               dates |-> IF a.tag = "Date" /\ b.tag = "Date"
                         THEN Some([eq |-> DateEq(a.v, b.v),
                                    hash |-> DateHash(a.v),
                                    hashOther |-> DateHash(b.v)])
                         ELSE None]
    /\ UNCHANGED <<a, b, c, origin, s, s2, parsed, convertVars, resolveVars,
                 identifierVars, clientVars>>

\* A caller compares an Instant, a full Date and a second Instant written
\* with that date pairwise, as DateTimes (a sort does).
CompareDateTimeChain ==
    /\ res = NoResult
    /\ a.tag = "DateTime" /\ b.tag = "Date" /\ c # None
    /\ res' = [op |-> "DateTimeChain",
               eqAB |-> DateTimeEq(a, b),
               eqBC |-> DateTimeEq(b, DateTimeOfInstant(c[1])),
               eqAC |-> DateTimeEq(a, DateTimeOfInstant(c[1])),
               ordAB |-> DateTimePartialCmp(a, b),
               ordBC |-> DateTimePartialCmp(b, DateTimeOfInstant(c[1])),
               ordAC |-> DateTimePartialCmp(a, DateTimeOfInstant(c[1]))]
    /\ UNCHANGED <<a, b, c, origin, s, s2, parsed, convertVars, resolveVars,
                 identifierVars, clientVars>>

\* DateTime == DateTime, DateTime < DateTime, in both orders.
CompareDateTime ==
    /\ res = NoResult
    /\ res' = [op |-> "DateTime",
               eq |-> DateTimeEq(a, b), eqRev |-> DateTimeEq(b, a),
               ord |-> DateTimePartialCmp(a, b),
               ordRev |-> DateTimePartialCmp(b, a)]
    /\ UNCHANGED <<a, b, c, origin, s, s2, parsed, convertVars, resolveVars,
                 identifierVars, clientVars>>

\* Date against a raw time::Date, in both orders.
CompareDateRaw ==
    /\ res = NoResult
    /\ a.tag = "Date" /\ b.tag = "Date" /\ b.v.tag = "Date"
    /\ res' = [op |-> "DateRaw",
               eq |-> DateEqRaw(a.v, b.v.date), eqRev |-> RawEqDate(b.v.date, a.v),
               ord |-> DatePartialCmpRaw(a.v, b.v.date),
               ordRev |-> RawPartialCmpDate(b.v.date, a.v)]
    /\ UNCHANGED <<a, b, c, origin, s, s2, parsed, convertVars, resolveVars,
                 identifierVars, clientVars>>

\* Date against an OffsetDateTime, in both orders (equality only).
CompareDateOdt ==
    /\ res = NoResult
    /\ a.tag = "Date" /\ b.tag = "DateTime"
    /\ res' = [op |-> "DateOdt",
               eq |-> DateEqOdt(a.v, b.v), eqRev |-> OdtEqDate(b.v, a.v)]
    /\ UNCHANGED <<a, b, c, origin, s, s2, parsed, convertVars, resolveVars,
                 identifierVars, clientVars>>

\* DateTime against an OffsetDateTime, in both orders.
CompareDateTimeOdt ==
    /\ res = NoResult
    /\ b.tag = "DateTime"
    /\ res' = [op |-> "DateTimeOdt",
               eq |-> DateTimeEqOdt(a, b.v), eqRev |-> OdtEqDateTime(b.v, a),
               ord |-> DateTimePartialCmpOdt(a, b.v),
               ordRev |-> OdtPartialCmpDateTime(b.v, a)]
    /\ UNCHANGED <<a, b, c, origin, s, s2, parsed, convertVars, resolveVars,
                 identifierVars, clientVars>>

NextCompare ==
    \/ CompareDate
    \/ CompareDateChain
    \/ CompareDateTimeChain
    \/ HashDateTime
    \/ CompareDateTime
    \/ CompareDateRaw
    \/ CompareDateOdt
    \/ CompareDateTimeOdt

SpecCompare == InitCompare /\ [][NextCompare]_vars

(***************************************************************************)
(* Properties of equality and ordering.                                    *)
(***************************************************************************)
\* The precision of a Date: the number of components it states.
Precision(d) ==
    CASE d.tag = "Year" -> 1
      [] d.tag = "YearMonth" -> 2
      [] OTHER -> 3

\* The components a Date states, coarsest first.
Components(d) ==
    CASE d.tag = "Year" -> <<d.year>>
      [] d.tag = "YearMonth" -> <<d.year, d.month>>
      [] OTHER -> <<d.date.y, d.date.m, d.date.d>>

CoarserPrecision(l, r) ==
    IF Precision(l) <= Precision(r) THEN Precision(l) ELSE Precision(r)

\* l and r agree on every component the coarser of them states.
AgreeAtCoarser(l, r) ==
    \A i \in 1 .. CoarserPrecision(l, r) : Components(l)[i] = Components(r)[i]

\* The lexicographic order of the first n components.
LexOrder(l, r, n) ==
    IF \A i \in 1 .. n : l[i] = r[i] THEN Equal
    ELSE LET k == CHOOSE i \in 1 .. n :
                    l[i] # r[i] /\ \A j \in 1 .. (i - 1) : l[j] = r[j]
         IN IF l[k] < r[k] THEN Less ELSE Greater

OrderAtCoarser(l, r) ==
    LexOrder(Components(l), Components(r), CoarserPrecision(l, r))

\* C1: two Dates are equal exactly when they agree on every component the
\* coarser of the two states; what the coarser one leaves out is ignored.
C1_DateEqAtCoarserPrecision ==
    res.op = "Date" =>
        /\ res.eq = AgreeAtCoarser(a.v, b.v)
        /\ res.eqRev = AgreeAtCoarser(b.v, a.v)

\* Year(2024) == Date(2024-02-02): the year is no stand-in for January 1st.
C1_Witness ==
    /\ res.op = "Date"
    /\ a.v = Year(2024)
    /\ b.v = FullDate(RawDate(2024, 2, 2))
    /\ res.eq

\* C2: Date::cmp is the lexicographic order of the components truncated to
\* the coarser precision: strict when the years differ or, with no Year
\* involved, the months differ in the same year; Equal when they coincide.
C2_DateCmpAtCoarserPrecision ==
    res.op = "Date" =>
        /\ res.ord = Some(OrderAtCoarser(a.v, b.v))
        /\ a.v.tag # "Year" /\ b.v.tag # "Year"
              /\ Components(a.v)[1] = Components(b.v)[1]
              /\ Components(a.v)[2] # Components(b.v)[2]
           => res.ord \in {Some(Less), Some(Greater)}
        /\ Components(a.v)[1] # Components(b.v)[1]
           => res.ord \in {Some(Less), Some(Greater)}

\* YearMonth(2024, 1) < Date(2024-02-01), decided by the month.
C2_Witness ==
    /\ res.op = "Date"
    /\ a.v = YearMonth(2024, 1)
    /\ b.v = FullDate(RawDate(2024, 2, 1))
    /\ res.ord = Some(Less)

\* C3: for two Dates and for two DateTimes exactly one of <, ==, > holds:
\* cmp returns without a panic, and == is true exactly when it is Equal.
C3_ExactlyOneOfLtEqGt ==
    res.op \in {"Date", "DateTime"} =>
        /\ res.ord \in {Some(Less), Some(Equal), Some(Greater)}
        /\ res.eq <=> (res.ord = Some(Equal))
        /\ Cardinality({r \in {"lt", "eq", "gt"} :
                \/ r = "lt" /\ Lt(res.ord)
                \/ r = "eq" /\ res.eq
                \/ r = "gt" /\ Gt(res.ord)}) = 1

\* A Date of coarser precision against an Instant: equal, and neither < nor >.
C3_Witness ==
    /\ res.op = "DateTime"
    /\ a.tag = "Date" /\ a.v.tag = "YearMonth"
    /\ b.tag = "DateTime"
    /\ res.eq /\ res.ord = Some(Equal)

ReverseOption(o) == IF o = None THEN None ELSE Some(Reverse(o[1]))

\* C4: equality and ordering are symmetric for every pairing of operand
\* types: a == b exactly when b == a, and the order of (b, a) is the reverse
\* of the order of (a, b).
C4_Symmetric ==
    /\ res.op \in {"Date", "DateTime", "DateRaw", "DateOdt", "DateTimeOdt"}
          => res.eq = res.eqRev
    /\ res.op \in {"Date", "DateTime", "DateRaw", "DateTimeOdt"}
          => /\ res.ord # None
             /\ res.ordRev = ReverseOption(res.ord)

\* A YearMonth below a raw date, and the raw date above the YearMonth.
C4_Witness ==
    /\ res.op = "DateRaw"
    /\ a.v.tag = "YearMonth"
    /\ res.ord = Some(Less) /\ res.ordRev = Some(Greater)
    /\ ~res.eq /\ ~res.eqRev

\* l is of coarser precision than r and r lies in the period l names.
Covers(l, r) == Precision(l) < Precision(r) /\ AgreeAtCoarser(l, r)

\* C5: equality is not transitive across precisions: a value that covers two
\* different finer values is equal to both, which are not equal to each other
\* (and cmp gives Equal, Equal and a strict order); and a coarser value is
\* never ordered strictly below (or above) a finer value it covers.
C5_NotTransitiveAcrossPrecisions ==
    res.op = "DateChain" =>
        /\ Covers(b.v, a.v) /\ Covers(b.v, c[1]) /\ ~AgreeAtCoarser(a.v, c[1])
              => /\ res.eqAB /\ res.eqBC /\ ~res.eqAC
                 /\ res.ordAB = Some(Equal) /\ res.ordBC = Some(Equal)
                 /\ res.ordAC \in {Some(Less), Some(Greater)}
        /\ Covers(a.v, b.v) => res.eqAB /\ res.ordAB = Some(Equal)
        /\ Covers(b.v, c[1]) => res.eqBC /\ res.ordBC = Some(Equal)
        /\ Covers(a.v, c[1]) => res.eqAC /\ res.ordAC = Some(Equal)

\* Date(2024-01-01) == Year(2024) == Date(2024-02-02), and the first is less
\* than the last.
C5_Witness ==
    /\ res.op = "DateChain"
    /\ a.v = FullDate(RawDate(2024, 1, 1))
    /\ b.v = Year(2024)
    /\ c = Some(FullDate(RawDate(2024, 2, 2)))
    /\ res.eqAB /\ res.eqBC /\ ~res.eqAC
    /\ res.ordAB = Some(Equal) /\ res.ordBC = Some(Equal)
    /\ res.ordAC = Some(Less)

\* The calendar date an Instant shows in its own offset, as a full Date.
LocalDate(i) == FullDate(i.date)

\* C6: a DateTime wrapping an Instant against a DateTime wrapping a Date, in
\* either order, is compared by the Instant's calendar date in its own
\* offset, truncated to the Date's precision; the time of day plays no part.
\* So "2024-02" equals "2024-02-15T13:00:00Z" and both are less than
\* "2024-03".
C6_InstantAgainstDateByLocalDate ==
    res.op = "DateTime" =>
        /\ a.tag = "Date" /\ b.tag = "DateTime"
              => /\ res.eq = AgreeAtCoarser(a.v, LocalDate(b.v))
                 /\ res.ord = Some(OrderAtCoarser(a.v, LocalDate(b.v)))
        /\ a.tag = "DateTime" /\ b.tag = "Date"
              => /\ res.eq = AgreeAtCoarser(LocalDate(a.v), b.v)
                 /\ res.ord = Some(OrderAtCoarser(LocalDate(a.v), b.v))
        /\ origin = "parsed" /\ {s, s2} = {Str202402, StrInstantZ}
              => res.eq /\ res.ord = Some(Equal)
        /\ origin = "parsed" /\ s \in {Str202402, StrInstantZ} /\ s2 = Str202403
              => ~res.eq /\ res.ord = Some(Less)

\* "2024-03-01T00:30:00+02:00" is a day of February in UTC and yet equal to
\* "2024-03".
C6_Witness ==
    /\ res.op = "DateTime"
    /\ origin = "parsed" /\ s = StrInstantPlus /\ s2 = Str202403
    /\ a.tag = "DateTime" /\ b.tag = "Date"
    /\ res.eq /\ res.ord = Some(Equal)

\* C7: two DateTimes that wrap Instants (and a DateTime wrapping an Instant
\* against an OffsetDateTime) are compared by the absolute moment alone, not
\* by the offset or the calendar date they are written with.
C7_InstantsByAbsoluteMoment ==
    res.op \in {"DateTime", "DateTimeOdt"} /\ a.tag = "DateTime" /\ b.tag = "DateTime"
        => /\ res.eq <=> /\ OdtAbsolute(a.v) = OdtAbsolute(b.v)
                         /\ a.v.nanosecond = b.v.nanosecond
           /\ OdtAbsolute(a.v) < OdtAbsolute(b.v) => res.ord = Some(Less)
           /\ OdtAbsolute(a.v) > OdtAbsolute(b.v) => res.ord = Some(Greater)

\* The left instant is written with the later calendar date and is the
\* earlier moment.
C7_Witness ==
    /\ res.op = "DateTime"
    /\ a.tag = "DateTime" /\ b.tag = "DateTime"
    /\ a.v.offset # b.v.offset
    /\ RawDateCmp(a.v.date, b.v.date) = Greater
    /\ res.ord = Some(Less)

(***************************************************************************)
(* The strings under parse.                                                *)
(***************************************************************************)
MaxSegments == 4

\* First segments: "2024", "2023", "999", "12345", "+2024", "abcd", "", "0999"
YearSegments ==
    {<<"2", "0", "2", "4">>,
     <<"2", "0", "2", "3">>,
     <<"9", "9", "9">>,
     <<"1", "2", "3", "4", "5">>,
     <<"+", "2", "0", "2", "4">>,
     <<"a", "b", "c", "d">>,
     <<>>,
     <<"0", "9", "9", "9">>}

\* Second segments: "02", "2", "13", "00", "12", "ab", "", "2024"
MonthSegments ==
    {<<"0", "2">>,
     <<"2">>,
     <<"1", "3">>,
     <<"0", "0">>,
     <<"1", "2">>,
     <<"a", "b">>,
     <<>>,
     <<"2", "0", "2", "4">>}

\* Third segments: "11", "30", "29", "1", "00", "31", "2a"
DaySegments ==
    {<<"1", "1">>,
     <<"3", "0">>,
     <<"2", "9">>,
     <<"1">>,
     <<"0", "0">>,
     <<"3", "1">>,
     <<"2", "a">>}

\* Any further segment: "01"
ExtraSegments == {<<"0", "1">>}

SegmentChoices(i) ==
    CASE i = 1 -> YearSegments
      [] i = 2 -> MonthSegments
      [] i = 3 -> DaySegments
      [] OTHER -> ExtraSegments

\* The strings of n segments joined by '-'.
RECURSIVE Joined(_)
Joined(n) ==
    IF n = 1 THEN SegmentChoices(1)
    ELSE {head \o <<"-">> \o seg : head \in Joined(n - 1), seg \in SegmentChoices(n)}

DateInputs == UNION {Joined(n) : n \in 1 .. MaxSegments}

ParseInputs == DateInputs \cup ScenarioStrings

InitParse ==
    /\ s \in ParseInputs
    /\ s2 = <<>>
    /\ origin = "parsed"
    /\ a = NoValue /\ b = NoValue /\ c = None
    /\ res = NoResult
    /\ parsed = NoResult
    /\ input = NoValue /\ conv = NoResult
    /\ resource = NoValue /\ selector = "none" /\ resolved = NoResult
    /\ OthersIdle

\* Date::from_str(s), as Deserialize for Date calls it.
ParseDate ==
    /\ parsed = NoResult
    /\ parsed' = [op |-> "Date", out |-> DateFromStr(s)]
    /\ UNCHANGED <<compareVars, origin, s, s2, convertVars, resolveVars,
                 identifierVars, clientVars>>

\* DateTime::from_str(s), as Deserialize for DateTime calls it.
ParseDateTime ==
    /\ parsed = NoResult
    /\ parsed' = [op |-> "DateTime", out |-> DateTimeFromStr(s)]
    /\ UNCHANGED <<compareVars, origin, s, s2, convertVars, resolveVars,
                 identifierVars, clientVars>>

NextParse ==
    \/ ParseDate
    \/ ParseDateTime

SpecParse == InitParse /\ [][NextParse]_vars

(***************************************************************************)
(* Properties of Date::from_str.                                           *)
(***************************************************************************)
\* The number of '-'-separated segments of a string.
SegmentCount(str) == Cardinality({i \in 1 .. Len(str) : str[i] = "-"}) + 1

\* The k-th '-'-separated segment of a string.
Segment(str, k) ==
    LET dashes == {i \in 0 .. (Len(str) + 1) :
                        i = 0 \/ i = Len(str) + 1 \/ str[i] = "-"}
        start == CHOOSE i \in dashes :
                        Cardinality({j \in dashes : j < i}) = k - 1
        stop == CHOOSE i \in dashes : Cardinality({j \in dashes : j < i}) = k
    IN SubSeq(str, start + 1, stop - 1)

\* A non-empty run of digits (that fits the integer type).
PlainNumber(str) == str # <<>> /\ AllDigits(str) /\ Len(str) <= 9

\* The string is written DDDD-DD-DD.
FullDateShape(str) ==
    /\ Len(str) = 10
    /\ DigitsAt(str, 1, 4) /\ str[5] = "-"
    /\ DigitsAt(str, 6, 2) /\ str[8] = "-"
    /\ DigitsAt(str, 9, 2)

\* A date of the Gregorian calendar.
ValidGregorian(y, m, d) == m \in 1 .. 12 /\ d \in 1 .. DaysInMonth(y, m)

C9_MalformedRejectedDistinctly ==
    parsed.op = "Date" =>
        LET n == SegmentCount(s)
            out == parsed.out
        IN /\ s = <<"2", "0", "2", "4", "-", "1", "3">> => ~out.ok /\ out.err.kind = "ComponentRange"
           /\ s = <<"2", "0", "2", "4", "-", "0", "2", "-", "3", "0">> => ~out.ok /\ out.err.kind = "Parse"
           /\ s = <<"a", "b", "c", "d">> => ~out.ok /\ out.err.kind = "IntParsing"
           /\ n >= 4 => ~out.ok /\ out.err.kind = "InvalidDate"
           /\ n = 2 /\ out.ok /\ AllDigits(Segment(s, 2))
                => out.v.month = DigitsValue(Segment(s, 2))
           /\ n = 3 /\ out.ok
                => /\ out.v.date.m = DigitsValue(Segment(s, 2))
                   /\ out.v.date.d = DigitsValue(Segment(s, 3))

\* "2024-02-30" is rejected by the calendar check.
C9_Witness ==
    /\ parsed.op = "Date"
    /\ s = <<"2", "0", "2", "4", "-", "0", "2", "-", "3", "0">>
    /\ parsed.out = Err(FromParse("TryFromParsed"))

\* The wire forms YYYY, YYYY-MM and YYYY-MM-DD with a year of exactly four
\* digits in 1000..9999 and a month of two digits.
WireForm(str) ==
    /\ Len(str) \in {4, 7, 10}
    /\ DigitsAt(str, 1, 4)
    /\ DigitsValue(SubSeq(str, 1, 4)) \in 1000 .. 9999
    /\ Len(str) >= 7 => str[5] = "-" /\ DigitsAt(str, 6, 2)
    /\ Len(str) = 10 => str[8] = "-" /\ DigitsAt(str, 9, 2)

\* C10: Date::from_str returns Ok only for a string in one of the wire forms
\* YYYY, YYYY-MM, YYYY-MM-DD with a four-digit year in 1000..9999.
C10_OnlyWireFormsAccepted ==
    parsed.op = "Date" /\ parsed.out.ok => WireForm(s)

(***************************************************************************)
(* Serialization and narrowing.                                            *)
(***************************************************************************)

DigitChar(d) ==
    CASE d = 0 -> "0" [] d = 1 -> "1" [] d = 2 -> "2" [] d = 3 -> "3"
      [] d = 4 -> "4" [] d = 5 -> "5" [] d = 6 -> "6" [] d = 7 -> "7"
      [] d = 8 -> "8" [] OTHER -> "9"

\* The decimal digits of a natural number, without padding.
RECURSIVE NatToString(_)
NatToString(n) ==
    IF n < 10 THEN <<DigitChar(n)>>
    ELSE NatToString(n \div 10) \o <<DigitChar(n % 10)>>

\* i32::to_string and "{year}": a '-' for a negative number, then the digits.
I32ToString(n) ==
    IF n < 0 THEN <<"-">> \o NatToString(0 - n) ELSE NatToString(n)

\* "{:02}" and the zero padding of [year], [month], [day], [hour], ...: at
\* least w digits.
RECURSIVE PadZero(_, _)
PadZero(n, w) ==
    IF w <= 1 \/ n >= Pow10(w - 1) THEN NatToString(n)
    ELSE <<"0">> \o PadZero(n, w - 1)

\* time::Date::format with "[year]-[month]-[day]": the year zero padded to four
\* digits with a '-' before a negative one, month and day zero padded to two.
FormatFullDate(t) ==
    (IF t.y < 0 THEN <<"-">> ELSE <<>>)
        \o PadZero(IF t.y < 0 THEN 0 - t.y ELSE t.y, 4)
        \o <<"-">> \o PadZero(t.m, 2) \o <<"-">> \o PadZero(t.d, 2)

\* DateSerialize without the check of the year.
DateSerialize_NoRangeCheck(self) ==
    CASE self.tag = "Year" -> Ok(I32ToString(self.year))
      [] self.tag = "YearMonth" ->
            Ok(I32ToString(self.year) \o <<"-">> \o PadZero(self.month, 2))
      [] OTHER -> Ok(FormatFullDate(self.date))

\* impl Serialize for Date
DateSerialize(self) ==
    CASE self.tag = "Year" ->
            IF self.year \in 1000 .. 9999
            THEN Ok(I32ToString(self.year))
            ELSE Err("Year is not 4 digits long")
      [] self.tag = "YearMonth" ->
            IF self.year \in 1000 .. 9999
            THEN Ok(I32ToString(self.year) \o <<"-">>
                        \o PadZero(self.month, 2))
            ELSE Err("Year is not 4 digits long")
      [] OTHER -> Ok(FormatFullDate(self.date))

\* serde::de::Error::custom: the error, carried as the message of a
\* deserialization error.
Custom(e) == [custom |-> e]

\* impl Deserialize for Date: the string, then Date::from_str.
DateDeserialize(str) ==
    LET r == DateFromStr(str) IN IF r.ok THEN r ELSE Err(Custom(r.err))

(***************************************************************************)
(* Time: time::Time behind serde_time.                                     *)
(***************************************************************************)

\* time::Time
TimeOf(h, mi, sec, ns) ==
    [hour |-> h, minute |-> mi, second |-> sec, nanosecond |-> ns]

\* time::format_description::FormatItem, as far as serde_time builds it.
Component(name) == [kind |-> "Component", name |-> name]
Literal(text) == [kind |-> "Literal", text |-> text]
Compound(items) == [kind |-> "Compound", items |-> items]
Optional(item) == [kind |-> "Optional", item |-> item]

\* format_description!("[hour]:[minute]")
TIME_MINUTE_FORMAT ==
    <<Component("hour"), Literal(<<":">>), Component("minute")>>

OPTIONAL_SECONDS ==
    Optional(Compound(<<Literal(<<":">>), Component("second")>>))

TIME_FORMAT == <<Compound(TIME_MINUTE_FORMAT), OPTIONAL_SECONDS>>

OPTIONAL_SUB_SECONDS ==
    Optional(Compound(<<Literal(<<".">>), Component("subsecond")>>))

TIME_FORMAT_SUBSEC == <<Compound(TIME_FORMAT), OPTIONAL_SUB_SECONDS>>

\* [subsecond] (digits:1+) when formatting: the nine digits of the nanosecond
\* without their trailing zeros, and at least one digit.
RECURSIVE TrimZeros(_)
TrimZeros(digits) ==
    IF Len(digits) > 1 /\ digits[Len(digits)] = "0"
    THEN TrimZeros(SubSeq(digits, 1, Len(digits) - 1))
    ELSE digits

FormatSubsecond(ns) == TrimZeros(PadZero(ns, 9))

\* Time::format: every item is written, an Optional one included.
RECURSIVE FormatItem(_, _)
RECURSIVE FormatItems(_, _)
FormatItem(time, item) ==
    CASE item.kind = "Component" /\ item.name = "hour" ->
            PadZero(time.hour, 2)
      [] item.kind = "Component" /\ item.name = "minute" ->
            PadZero(time.minute, 2)
      [] item.kind = "Component" /\ item.name = "second" ->
            PadZero(time.second, 2)
      [] item.kind = "Component" -> FormatSubsecond(time.nanosecond)
      [] item.kind = "Literal" -> item.text
      [] item.kind = "Compound" -> FormatItems(time, item.items)
      [] OTHER -> FormatItem(time, item.item)

FormatItems(time, items) ==
    IF items = <<>> THEN <<>>
    ELSE FormatItem(time, Head(items)) \o FormatItems(time, Tail(items))

\* TimeSerialize with the seconds left out when they are zero.
TimeSerialize_MinutesOnly(time) ==
    IF time.second = 0 /\ time.nanosecond = 0
    THEN Ok(FormatItems(time, TIME_MINUTE_FORMAT))
    ELSE Ok(FormatItems(time, TIME_FORMAT_SUBSEC))

\* serde_time::serialize
TimeSerialize(time) ==
    LET format == IF time.nanosecond = 0 THEN TIME_FORMAT
                  ELSE TIME_FORMAT_SUBSEC
    IN  Ok(FormatItems(time, format))


\* time::parsing::Parsed: the components read so far.
NoneParsed ==
    [hour |-> None, minute |-> None, second |-> None, subsecond |-> None]

Parsing(rest, p) == [ok |-> TRUE, rest |-> rest, p |-> p]

\* [hour], [minute], [second]: exactly two digits, in the component's range.
\* [subsecond]: one digit or more.
ParseComponent(st, name) ==
    IF name = "subsecond"
    THEN LET n == DigitRun(st.rest, 1)
         IN  IF n = 0 THEN Err("InvalidComponent")
             ELSE Parsing(SubSeq(st.rest, n + 1, Len(st.rest)),
                          [st.p EXCEPT !.subsecond =
                              Some(FractionNanos(SubSeq(st.rest, 1, n)))])
    ELSE LET v == DigitsValue(SubSeq(st.rest, 1, 2))
             limit == IF name = "hour" THEN 24 ELSE 60
             rest == SubSeq(st.rest, 3, Len(st.rest))
         IN  IF ~DigitsAt(st.rest, 1, 2) \/ v >= limit
             THEN Err("InvalidComponent")
             ELSE CASE name = "hour" ->
                        Parsing(rest, [st.p EXCEPT !.hour = Some(v)])
                    [] name = "minute" ->
                        Parsing(rest, [st.p EXCEPT !.minute = Some(v)])
                    [] OTHER ->
                        Parsing(rest, [st.p EXCEPT !.second = Some(v)])

ParseLiteral(st, text) ==
    IF Len(st.rest) >= Len(text) /\ SubSeq(st.rest, 1, Len(text)) = text
    THEN Parsing(SubSeq(st.rest, Len(text) + 1, Len(st.rest)), st.p)
    ELSE Err("InvalidLiteral")

\* Parsed::parse_item: an Optional item that does not match consumes nothing
\* and sets nothing.
RECURSIVE ParseItem(_, _)
RECURSIVE ParseItems(_, _)
ParseItem(st, item) ==
    CASE item.kind = "Component" -> ParseComponent(st, item.name)
      [] item.kind = "Literal" -> ParseLiteral(st, item.text)
      [] item.kind = "Compound" -> ParseItems(st, item.items)
      [] OTHER ->
            LET r == ParseItem(st, item.item) IN IF r.ok THEN r ELSE st

ParseItems(st, items) ==
    IF items = <<>> THEN st
    ELSE LET r == ParseItem(st, Head(items))
         IN  IF r.ok THEN ParseItems(r, Tail(items)) ELSE r

\* TimeFromParsed with absent seconds and sub-seconds read as zero.
TimeFromParsed_ZeroDefaults(p) ==
    IF p.hour = None \/ p.minute = None THEN Err("InsufficientInformation")
    ELSE Ok(TimeOf(p.hour[1], p.minute[1],
                   IF p.second = None THEN 0 ELSE p.second[1],
                   IF p.subsecond = None THEN 0 ELSE p.subsecond[1]))

\* TryFrom<Parsed> for time::Time: the components present must be a prefix of
\* hour, minute, second, subsecond.
TimeFromParsed(p) ==
    CASE p.hour = None -> Err("InsufficientInformation")
      [] p.hour # None /\ p.minute = None /\ p.second = None
            /\ p.subsecond = None ->
            Ok(TimeOf(p.hour[1], 0, 0, 0))
      [] p.hour # None /\ p.minute # None /\ p.second = None
            /\ p.subsecond = None ->
            Ok(TimeOf(p.hour[1], p.minute[1], 0, 0))
      [] p.hour # None /\ p.minute # None /\ p.second # None
            /\ p.subsecond = None ->
            Ok(TimeOf(p.hour[1], p.minute[1], p.second[1], 0))
      [] p.hour # None /\ p.minute # None /\ p.second # None
            /\ p.subsecond # None ->
            Ok(TimeOf(p.hour[1], p.minute[1], p.second[1], p.subsecond[1]))
      [] OTHER -> Err("InsufficientInformation")

\* time::Time::parse(&string, description)
TimeParse(str, description) ==
    LET r == ParseItems(Parsing(str, NoneParsed), description)
    IN  IF ~r.ok THEN r
        ELSE IF r.rest # <<>> THEN Err("UnexpectedTrailingCharacters")
        ELSE TimeFromParsed(r.p)

\* serde_time::deserialize
TimeDeserialize(str) ==
    LET r == TimeParse(str, TIME_FORMAT_SUBSEC)
    IN  IF r.ok THEN r ELSE Err(Custom(r.err))


(***************************************************************************)
(* Instant and DateTime on the wire, and the narrowing to a calendar date. *)
(***************************************************************************)

\* Instant: #[serde(with = "time::serde::rfc3339")], serializing with
\* OffsetDateTime::format(&Rfc3339): the year must be in 0..=9999 and the
\* offset a whole number of minutes; the fraction is written without trailing
\* zeros and only when the nanosecond is not zero; the UTC offset is written
\* as Z.
InstantSerialize(dt) ==
    LET abs == IF dt.offset < 0 THEN 0 - dt.offset ELSE dt.offset
        offHour == abs \div 3600
        offMinute == (abs % 3600) \div 60
    IN  IF dt.date.y < 0 \/ dt.date.y > 9999 THEN Err("InvalidComponent")
        ELSE IF abs % 60 # 0 THEN Err("InvalidComponent")
        ELSE Ok(PadZero(dt.date.y, 4) \o <<"-">> \o PadZero(dt.date.m, 2)
                  \o <<"-">> \o PadZero(dt.date.d, 2) \o <<"T">>
                  \o PadZero(dt.hour, 2) \o <<":">> \o PadZero(dt.minute, 2)
                  \o <<":">> \o PadZero(dt.second, 2)
                  \o (IF dt.nanosecond # 0
                      THEN <<".">> \o FormatSubsecond(dt.nanosecond)
                      ELSE <<>>)
                  \o (IF offHour = 0 /\ offMinute = 0 THEN <<"Z">>
                      ELSE (IF dt.offset < 0 THEN <<"-">> ELSE <<"+">>)
                              \o PadZero(offHour, 2) \o <<":">>
                              \o PadZero(offMinute, 2)))

InstantDeserialize(str) ==
    LET r == ParseRfc3339(str) IN IF r.ok THEN r ELSE Err(Custom(r.err))

\* DateTime: #[derive(Serialize)] #[serde(untagged)]
DateTimeSerialize(self) ==
    IF self.tag = "Date" THEN DateSerialize(self.v)
    ELSE InstantSerialize(self.v)

\* impl Deserialize for DateTime
DateTimeDeserialize(str) ==
    LET r == DateTimeFromStr(str) IN IF r.ok THEN r ELSE Err(Custom(r.err))

InsufficientDatePrecision == [kind |-> "InsufficientDatePrecision"]

\* TryFromDate with a partial date widened to the first day of its period.
TryFromDate_FirstDay(date) ==
    CASE date.tag = "Date" -> Ok(date.date)
      [] date.tag = "YearMonth" -> Ok(RawDate(date.year, date.month, 1))
      [] OTHER -> Ok(RawDate(date.year, 1, 1))

\* impl TryFrom<Date> for time::Date
TryFromDate(date) ==
    IF date.tag = "Date" THEN Ok(date.date)
    ELSE Err(InsufficientDatePrecision)

\* impl TryFrom<DateTime> for time::Date
TryFromDateTime(dateTime) ==
    IF dateTime.tag = "Date" THEN TryFromDate(dateTime.v)
    ELSE Ok(OdtDate(dateTime.v))


(***************************************************************************)
(* The conversions as a state machine: a value is serialized and the       *)
(* string read back, or a string is read and the value serialized again.   *)
(***************************************************************************)

\* Years on both sides of the serializable range 1000..9999, and one before
\* the common era.
ConvertYears == Years \cup {0 - 999, 999, 1000, 9999, 10000}

\* The years a time::Date can hold: -9999..=9999.
RawDateYears == {y \in ConvertYears : 0 - 9999 <= y /\ y <= 9999}

ConvertDates ==
    {Year(y) : y \in ConvertYears}
        \cup {YearMonth(y, m) : y \in ConvertYears, m \in Months \cup {12}}
        \cup {FullDate(RawDate(y, m, d)) :
                y \in RawDateYears, m \in Months \cup {12}, d \in Days}

Typed(type, v) == [type |-> type, v |-> v]

\* Clock times with and without seconds and sub-seconds.
ConvertTimes ==
    {TimeOf(h, mi, sec, ns) :
        h \in Hours \cup {13}, mi \in {0, 5}, sec \in {0, 30},
        ns \in {0, 1, 120000000, 500000000}}

\* Instants with a fraction, with an offset of minutes, of seconds, and with
\* a year before the common era.
ConvertInstants ==
    Instants \cup
    {OffsetDateTime(t, 13, 30, 15, ns, o) :
        t \in {RawDate(2024, 2, 29), RawDate(0 - 999, 1, 1)},
        ns \in {0, 500000000},
        o \in {0, 5400, 0 - 5400, 3601}}

ConvertDateTimes ==
    {DateTimeOfDate(d) : d \in ConvertDates}
        \cup {DateTimeOfInstant(i) : i \in ConvertInstants}

ConvertInputs ==
    {Typed("Date", d) : d \in ConvertDates}
        \cup {Typed("Time", x) : x \in ConvertTimes}
        \cup {Typed("Instant", i) : i \in ConvertInstants}
        \cup {Typed("DateTime", dt) : dt \in ConvertDateTimes}

\* The pieces time strings are put together from: an hour, then the minute,
\* the second and the fraction with their separators, each also absent or
\* malformed.
TimeHourSegments == {<<"1", "3">>,
     <<"1">>,
     <<"2", "4">>,
     <<"a", "b">>}
TimeMinuteSegments == {<<":", "0", "0">>,
     <<":", "5">>,
     <<":", "6", "0">>,
     <<>>,
     <<"-", "0", "0">>}
TimeSecondSegments == {<<>>,
     <<":", "0", "0">>,
     <<":", "3", "0">>,
     <<":", "5">>,
     <<":", "6", "0">>}
TimeFractionSegments == {<<>>,
     <<".", "5">>,
     <<".", "5", "0", "0">>,
     <<".">>,
     <<".", "1", "2", "3", "4", "5", "6", "7", "8", "9">>,
     <<".", "5", "Z">>,
     <<":", "0", "0">>}

TimeInputs ==
    {h \o mi \o sec \o f :
        h \in TimeHourSegments, mi \in TimeMinuteSegments,
        sec \in TimeSecondSegments, f \in TimeFractionSegments}

Str2024 == <<"2", "0", "2", "4">>
Str20240211 == <<"2", "0", "2", "4", "-", "0", "2", "-", "1", "1">>
StrTime == <<"1", "3", ":", "0", "0", ":", "0", "0">>
StrTimeMillis == <<"1", "3", ":", "0", "0", ":", "0", "0", ".", "5", "0", "0">>
StrInstantUtcOffset == <<"2", "0", "2", "4", "-", "0", "2", "-", "1", "5", "T", "1", "3", ":", "0", "0", ":", "0", "0", "+", "0", "0", ":", "0", "0">>
StrInstantMillis == <<"2", "0", "2", "4", "-", "0", "2", "-", "1", "5", "T", "1", "3", ":", "0", "0", ":", "0", "0", ".", "5", "0", "0", "Z">>
StrDateThenT == <<"2", "0", "2", "4", "-", "0", "2", "-", "1", "1", "T">>
StrYearThenT == <<"2", "0", "2", "4", "T">>
StrLowerInstant == <<"2", "0", "2", "4", "-", "0", "2", "-", "1", "5", "t", "1", "3", ":", "0", "0", ":", "0", "0", "z">>

\* The strings read first and serialized after.
ConvertStrings ==
    ScenarioStrings \cup TimeInputs
        \cup {Str2024, Str20240211, StrInstantUtcOffset, StrInstantMillis,
              StrDateThenT, StrYearThenT, StrLowerInstant}

InitConvert ==
    /\ \/ /\ origin = "builder"
          /\ input \in ConvertInputs
          /\ s = <<>>
       \/ /\ origin = "parsed"
          /\ input = NoValue
          /\ s \in ConvertStrings
    /\ s2 = <<>>
    /\ conv = NoResult
    /\ parsed = NoResult
    /\ a = NoValue /\ b = NoValue /\ c = None /\ res = NoResult
    /\ resource = NoValue /\ selector = "none" /\ resolved = NoResult
    /\ OthersIdle

\* The string a deserializer is handed: the input string, or the one the
\* serializer produced.
Wire == IF origin = "parsed" THEN s ELSE conv.out.v

\* A value read from the input string becomes the value to serialize.
Read(type, out) ==
    /\ parsed' = [op |-> type, out |-> out]
    /\ input' = IF origin = "parsed" /\ out.ok THEN Typed(type, out.v)
                ELSE input
    /\ UNCHANGED <<compareVars, origin, s, s2, conv, resolveVars,
                 identifierVars, clientVars>>

Written(type, out) ==
    /\ conv' = [op |-> type, out |-> out]
    /\ UNCHANGED <<compareVars, origin, s, s2, parsed, input, resolveVars,
                 identifierVars, clientVars>>

\* serde_json::to_value(&date)
SerializeDate ==
    /\ conv = NoResult
    /\ input # NoValue /\ input.type = "Date"
    /\ Written("Date", DateSerialize(input.v))

SerializeTime ==
    /\ conv = NoResult
    /\ input # NoValue /\ input.type = "Time"
    /\ Written("Time", TimeSerialize(input.v))

SerializeInstant ==
    /\ conv = NoResult
    /\ input # NoValue /\ input.type = "Instant"
    /\ Written("Instant", InstantSerialize(input.v))

SerializeDateTime ==
    /\ conv = NoResult
    /\ input # NoValue /\ input.type = "DateTime"
    /\ Written("DateTime", DateTimeSerialize(input.v))

\* time::Date::try_from(date)
NarrowDate ==
    /\ conv = NoResult /\ origin = "builder"
    /\ input.type = "Date"
    /\ Written("TryFromDate", TryFromDate(input.v))

\* time::Date::try_from(date_time)
NarrowDateTime ==
    /\ conv = NoResult /\ origin = "builder"
    /\ input.type = "DateTime"
    /\ Written("TryFromDateTime", TryFromDateTime(input.v))

\* A deserializer of a type reads the input string, or what the serializer
\* of that type wrote.
Reads(type) ==
    /\ parsed = NoResult
    /\ \/ origin = "parsed"
       \/ conv # NoResult /\ conv.out.ok /\ conv.op = type

\* serde_json::from_value::<Date>(..)
DeserializeDate ==
    /\ Reads("Date")
    /\ Read("Date", DateDeserialize(Wire))

DeserializeTime ==
    /\ Reads("Time")
    /\ Read("Time", TimeDeserialize(Wire))

DeserializeInstant ==
    /\ Reads("Instant")
    /\ Read("Instant", InstantDeserialize(Wire))

DeserializeDateTime ==
    /\ Reads("DateTime")
    /\ Read("DateTime", DateTimeDeserialize(Wire))

NextConvert ==
    \/ SerializeDate
    \/ SerializeTime
    \/ SerializeInstant
    \/ SerializeDateTime
    \/ NarrowDate
    \/ NarrowDateTime
    \/ DeserializeDate
    \/ DeserializeTime
    \/ DeserializeInstant
    \/ DeserializeDateTime

SpecConvert == InitConvert /\ [][NextConvert]_vars

\* What the last serialization made of a Date.
SerializedDate == conv # NoResult /\ conv.op = "Date"

\* C11: a Year or YearMonth serializes iff its year is in 1000..9999, to the
\* four digits of the year, followed for a YearMonth by '-' and the month zero
\* padded to two digits; outside that range the result is an error and no
\* string.
C11_YearSerializedIffFourDigits ==
    (SerializedDate /\ input.v.tag \in {"Year", "YearMonth"}) =>
        LET d == input.v
            out == conv.out
        IN  /\ out.ok <=> (1000 <= d.year /\ d.year <= 9999)
            /\ ~out.ok => DOMAIN out = {"ok", "err"}
            /\ (out.ok /\ d.tag = "Year") =>
                    /\ Len(out.v) = 4
                    /\ AllDigits(out.v) /\ DigitsValue(out.v) = d.year
            /\ (out.ok /\ d.tag = "YearMonth") =>
                    /\ Len(out.v) = 7
                    /\ DigitsAt(out.v, 1, 4)
                    /\ DigitsValue(SubSeq(out.v, 1, 4)) = d.year
                    /\ out.v[5] = "-"
                    /\ DigitsAt(out.v, 6, 2)
                    /\ DigitsValue(SubSeq(out.v, 6, 7)) = d.month

\* A YearMonth of the last serializable year and a one-digit month has been
\* serialized.
C11_Witness ==
    /\ SerializedDate
    /\ input.v.tag = "YearMonth" /\ input.v.year = 9999 /\ input.v.month < 10
    /\ conv.out.ok

\* The canonical strings and the type each is read as.
CanonicalKind(str) ==
    CASE str \in {Str2024, Str202402, Str20240211} -> "Date"
      [] str \in {StrTime, StrTimeMillis} -> "Time"
      [] str \in {StrInstantZ, StrInstantPlus, StrInstantMinus} -> "Instant"
      [] OTHER -> "none"

\* C12: each canonical string ("2024", "2024-02", "2024-02-11" as Date,
\* "13:00:00", "13:00:00.500" as Time, an RFC-3339 instant as Instant) is
\* accepted by the parser of its type, and serializing the parsed value
\* yields exactly the string that was read.
C12_CanonicalRoundTrip ==
    (origin = "parsed" /\ parsed # NoResult /\ parsed.op = CanonicalKind(s)) =>
        /\ parsed.out.ok
        /\ conv # NoResult => conv.out = Ok(s)

\* C13: a serialized Time always carries hour, minute and second as
\* hh:mm:ss, also when the value was read from hh:mm; a fraction follows if
\* and only if the nanosecond of the value is not zero, and it denotes that
\* nanosecond.
C13_TimeAlwaysWithSeconds ==
    (conv # NoResult /\ conv.op = "Time") =>
        LET x == input.v
            out == conv.out
            text == out.v
            fraction == SubSeq(text, 10, Len(text))
        IN  /\ out.ok
            /\ Len(text) >= 8
            /\ DigitsAt(text, 1, 2) /\ DigitsValue(SubSeq(text, 1, 2)) = x.hour
            /\ text[3] = ":"
            /\ DigitsAt(text, 4, 2)
            /\ DigitsValue(SubSeq(text, 4, 5)) = x.minute
            /\ text[6] = ":"
            /\ DigitsAt(text, 7, 2)
            /\ DigitsValue(SubSeq(text, 7, 8)) = x.second
            /\ Len(text) > 8 <=> x.nanosecond # 0
            /\ Len(text) > 8 =>
                    /\ text[9] = "."
                    /\ Len(fraction) \in 1 .. 9 /\ AllDigits(fraction)
                    /\ FractionNanos(fraction) = x.nanosecond

\* A time read from hh:mm has been serialized with its seconds.
C13_Witness ==
    /\ origin = "parsed" /\ Len(s) = 5
    /\ conv # NoResult /\ conv.op = "Time"
    /\ conv.out = Ok(s \o <<":", "0", "0">>)

\* hh:mm, hh:mm:ss or hh:mm:ss.fraction, with hour, minute and second in
\* range.
TimeWireForm(str) ==
    /\ Len(str) >= 5
    /\ DigitsAt(str, 1, 2) /\ DigitsValue(SubSeq(str, 1, 2)) <= 23
    /\ str[3] = ":"
    /\ DigitsAt(str, 4, 2) /\ DigitsValue(SubSeq(str, 4, 5)) <= 59
    /\ \/ Len(str) = 5
       \/ /\ Len(str) >= 8
          /\ str[6] = ":"
          /\ DigitsAt(str, 7, 2) /\ DigitsValue(SubSeq(str, 7, 8)) <= 59
          /\ \/ Len(str) = 8
             \/ /\ Len(str) >= 10
                /\ str[9] = "."
                /\ AllDigits(SubSeq(str, 10, Len(str)))

StrMinuteFraction == <<"1", "3", ":", "0", "0", ".", "5">>

\* C14: the Time deserializer accepts a string iff it is hh:mm, hh:mm:ss or
\* hh:mm:ss.fraction; every other string, a fraction after hh:mm included, is
\* answered with an error; absent seconds are read as zero.
C14_TimeFormsAccepted ==
    (origin = "parsed" /\ parsed # NoResult /\ parsed.op = "Time") =>
        /\ parsed.out.ok <=> TimeWireForm(s)
        /\ (parsed.out.ok /\ Len(s) = 5) =>
                parsed.out.v.second = 0 /\ parsed.out.v.nanosecond = 0
        /\ ~parsed.out.ok => input = NoValue

\* "13:00.5" has been handed to the Time deserializer and rejected.
C14_Witness ==
    /\ s = StrMinuteFraction
    /\ parsed # NoResult /\ parsed.op = "Time"
    /\ ~parsed.out.ok

\* What narrowing a Date to a calendar date must return.
NarrowedDate(d, out) ==
    IF d.tag \in {"Year", "YearMonth"}
    THEN out = Err(InsufficientDatePrecision)
    ELSE out = Ok(d.date)

\* C15: the conversion to time::Date returns Err(InsufficientDatePrecision)
\* for every Year and YearMonth, bare or inside a DateTime, the wrapped
\* calendar date unchanged for a full Date, and the calendar date of the
\* instant (at its own offset) for a DateTime wrapping an Instant; it always
\* returns, with Ok or Err.
C15_NarrowingToCalendarDate ==
    /\ (conv # NoResult /\ conv.op = "TryFromDate") =>
            /\ conv.out.ok \in BOOLEAN
            /\ NarrowedDate(input.v, conv.out)
    /\ (conv # NoResult /\ conv.op = "TryFromDateTime") =>
            /\ conv.out.ok \in BOOLEAN
            /\ input.v.tag = "Date" => NarrowedDate(input.v.v, conv.out)
            /\ input.v.tag = "DateTime" =>
                    conv.out = Ok(RawDate(input.v.v.date.y, input.v.v.date.m,
                                          input.v.v.date.d))

\* A DateTime wrapping a YearMonth has been narrowed and refused.
C15_Witness ==
    /\ conv # NoResult /\ conv.op = "TryFromDateTime"
    /\ input.v.tag = "Date" /\ input.v.v.tag = "YearMonth"
    /\ conv.out = Err(InsufficientDatePrecision)

\* C16: the precision of a Date is kept across the wire: a Date that
\* serializes is read back from the string written as the same variant with
\* the same components.
C16_DatePrecisionKept ==
    (/\ origin = "builder" /\ input.type = "Date"
     /\ conv # NoResult /\ conv.op = "Date" /\ conv.out.ok
     /\ parsed # NoResult) =>
        parsed.out = Ok(input.v)

\* C17: DateTime::from_str reads a string containing 'T' as an RFC-3339
\* instant only (DateTime::DateTime or an error, never a Date) and a string
\* without 'T' as a Date (DateTime::Date or an error); a serialized DateTime
\* contains 'T' exactly when it wraps an Instant, and reading it back gives
\* the same union case.
C17_DateTimeDispatchOnT ==
    /\ (origin = "parsed" /\ parsed # NoResult /\ parsed.op = "DateTime") =>
            IF Contains(s, "T")
            THEN /\ parsed.out.ok <=> InstantFromStr(s).ok
                 /\ parsed.out.ok => parsed.out.v.tag = "DateTime"
            ELSE /\ parsed.out.ok <=> DateFromStr(s).ok
                 /\ parsed.out.ok => parsed.out.v.tag = "Date"
    /\ (/\ origin = "builder" /\ conv # NoResult /\ conv.op = "DateTime"
        /\ conv.out.ok) =>
            /\ Contains(conv.out.v, "T") <=> input.v.tag = "DateTime"
            /\ parsed # NoResult =>
                    parsed.out.ok /\ parsed.out.v.tag = input.v.tag

(***************************************************************************)
(* Resolve: the value a record is ordered and filtered by (stu3/params).   *)
(***************************************************************************)
\* What a call of resolve ends in: a returned Option, or the panic of
\* unimplemented!() with its message.
Returned(o) == [kind |-> "returned", value |-> o]
Unimplemented(message) == [kind |-> "panic", message |-> message]

\* Any selector the match on param leaves to its `_` arm.
OtherParam == "_"

\* types::Period and the alternatives of a choice field.
Period(start, end) == [start |-> start, end |-> end]
ChoiceDateTime(dt) == [alt |-> "DateTime", v |-> dt]
ChoicePeriod(p) == [alt |-> "Period", v |-> p]
ChoiceOther == [alt |-> "Other", v |-> NoValue]

\* The DateTime values the fields hold.
FieldDateTimes ==
    {DateTimeOfDate(Year(y)) : y \in Years}
        \cup {DateTimeOfInstant(OffsetDateTime(RawDate(2023, 6, 15), 13, 0,
                                                0, 0, 0))}

OptionOf(set) == {None} \cup {Some(x) : x \in set}

Periods ==
    {Period(st, en) :
        st \in OptionOf(FieldDateTimes), en \in OptionOf(FieldDateTimes)}

\* A choice of dateTime or Period, and one that has further alternatives.
Choices ==
    {ChoiceDateTime(dt) : dt \in FieldDateTimes}
        \cup {ChoicePeriod(p) : p \in Periods}
OpenChoices == Choices \cup {ChoiceOther}

\* impl Resolve for resources::Observation
ObservationResolve(self, param) ==
    IF param = "Date"
    THEN IF self.effective = None THEN Returned(None)
         ELSE LET e == self.effective[1]
              IN  CASE e.alt = "DateTime" -> Returned(Some(e.v))
                    [] e.alt = "Period" /\ e.v.start # None ->
                            Returned(e.v.start)
                    [] OTHER -> Returned(e.v.end)
    ELSE Unimplemented("Currently only Observation:date is implemented")

\* impl Resolve for resources::EpisodeOfCare
EpisodeOfCareResolve(self, param) ==
    IF param = "Date"
    THEN IF self.period = None THEN Returned(None)
         ELSE LET p == self.period[1]
              IN  IF p.start # None THEN Returned(p.start)
                  ELSE Returned(p.end)
    ELSE Unimplemented("Currently only EpisodeOfCare:date is implemented")

\* EncounterResolve preferring the end of the period.
EncounterResolve_EndFirst(self, param) ==
    IF param = "Date"
    THEN IF self.period = None THEN Returned(None)
         ELSE LET p == self.period[1]
              IN  IF p.end # None THEN Returned(p.end)
                  ELSE Returned(p.start)
    ELSE Unimplemented("Currently only Encounter:date is implemented")

\* impl Resolve for resources::Encounter
EncounterResolve(self, param) ==
    IF param = "Date"
    THEN IF self.period = None THEN Returned(None)
         ELSE LET p == self.period[1]
              IN  IF p.start # None THEN Returned(p.start)
                  ELSE Returned(p.end)
    ELSE Unimplemented("Currently only Encounter:date is implemented")

\* impl Resolve for resources::DiagnosticReport
DiagnosticReportResolve(self, param) ==
    IF param = "Date"
    THEN IF self.effective = None THEN Returned(None)
         ELSE LET e == self.effective[1]
              IN  CASE e.alt = "DateTime" -> Returned(Some(e.v))
                    [] e.alt = "Period" /\ e.v.start # None ->
                            Returned(e.v.start)
                    [] OTHER -> Returned(e.v.end)
    ELSE Unimplemented("Currently only DiagnosticReport:date is implemented")

\* FlagResolve answering every other selector with None.
FlagResolve_Absent(self, param) ==
    IF param = "Date"
    THEN IF self.period = None THEN Returned(None)
         ELSE LET p == self.period[1]
              IN  IF p.start # None THEN Returned(p.start)
                  ELSE Returned(p.end)
    ELSE Returned(None)

\* impl Resolve for resources::Flag
FlagResolve(self, param) ==
    IF param = "Date"
    THEN IF self.period = None THEN Returned(None)
         ELSE LET p == self.period[1]
              IN  IF p.start # None THEN Returned(p.start)
                  ELSE Returned(p.end)
    ELSE Unimplemented("Currently only Flag:date is implemented")

\* impl Resolve for resources::Condition
ConditionResolve(self, param) ==
    CASE param = "AssertedDate" -> Returned(self.asserted_date)
      [] param = "OnsetDate" ->
            IF self.onset = None THEN Returned(None)
            ELSE LET e == self.onset[1]
                 IN  CASE e.alt = "DateTime" -> Returned(Some(e.v))
                       [] e.alt = "Period" /\ e.v.start # None ->
                               Returned(e.v.start)
                       [] e.alt = "Period" -> Returned(e.v.end)
                       [] OTHER -> Returned(None)
      [] OTHER -> Unimplemented("Currently only Condition:asserted-date and Condition:onset-date are implemented")

\* impl Resolve for resources::CareTeam
CareTeamResolve(self, param) ==
    IF param = "Date"
    THEN IF self.period = None THEN Returned(None)
         ELSE LET p == self.period[1]
              IN  IF p.start # None THEN Returned(p.start)
                  ELSE Returned(p.end)
    ELSE Unimplemented("Currently only CareTeam:date is implemented")

\* impl Resolve for resources::CarePlan
CarePlanResolve(self, param) ==
    IF param = "Date"
    THEN IF self.period = None THEN Returned(None)
         ELSE LET p == self.period[1]
              IN  IF p.start # None THEN Returned(p.start)
                  ELSE Returned(p.end)
    ELSE Unimplemented("Currently only CarePlan:date is implemented")

\* impl Resolve for resources::MedicationStatement
MedicationStatementResolve(self, param) ==
    IF param = "Effective"
    THEN IF self.effective = None THEN Returned(None)
         ELSE LET e == self.effective[1]
              IN  CASE e.alt = "DateTime" -> Returned(Some(e.v))
                    [] e.alt = "Period" /\ e.v.start # None ->
                            Returned(e.v.start)
                    [] OTHER -> Returned(e.v.end)
    ELSE Unimplemented("Currently only MedicationStatement:effective is implemented")

\* ProcedureResolve reading a Period by its end alone.
ProcedureResolve_PeriodEnd(self, param) ==
    IF param = "Date"
    THEN IF self.performed = None THEN Returned(None)
         ELSE LET e == self.performed[1]
              IN  CASE e.alt = "DateTime" -> Returned(Some(e.v))
                    [] OTHER -> Returned(e.v.end)
    ELSE Unimplemented("Currently only Procedure:date is implemented")

\* impl Resolve for resources::Procedure
ProcedureResolve(self, param) ==
    IF param = "Date"
    THEN IF self.performed = None THEN Returned(None)
         ELSE LET e == self.performed[1]
              IN  CASE e.alt = "DateTime" -> Returned(Some(e.v))
                    [] e.alt = "Period" /\ e.v.start # None ->
                            Returned(e.v.start)
                    [] OTHER -> Returned(e.v.end)
    ELSE Unimplemented("Currently only Procedure:date is implemented")

\* ProcedureRequestResolve with any other alternative read as no value.
ProcedureRequestResolve_OtherIsNone(self, param) ==
    IF param = "Occurrence"
    THEN IF self.occurrence = None THEN Returned(None)
         ELSE LET e == self.occurrence[1]
              IN  CASE e.alt = "DateTime" -> Returned(Some(e.v))
                    [] e.alt = "Period" /\ e.v.start # None ->
                            Returned(e.v.start)
                    [] e.alt = "Period" -> Returned(e.v.end)
                    [] OTHER -> Returned(None)
    ELSE Unimplemented("Currently only ProcedureRequest:occurrence  is implemented")

\* impl Resolve for resources::ProcedureRequest
ProcedureRequestResolve(self, param) ==
    IF param = "Occurrence"
    THEN IF self.occurrence = None THEN Returned(None)
         ELSE LET e == self.occurrence[1]
              IN  CASE e.alt = "DateTime" -> Returned(Some(e.v))
                    [] e.alt = "Period" /\ e.v.start # None ->
                            Returned(e.v.start)
                    [] e.alt = "Period" -> Returned(e.v.end)
                    [] OTHER -> Unimplemented("Currently only ProcedureRequest:occurrence of type dateTime or period are implemented")
    ELSE Unimplemented("Currently only ProcedureRequest:occurrence  is implemented")

\* The records, by type, over the fields resolve reads.
Resources ==
    {[type |-> "Observation", effective |-> effective] :
            effective \in OptionOf(Choices)}
        \cup {[type |-> "EpisodeOfCare", period |-> period] :
            period \in OptionOf(Periods)}
        \cup {[type |-> "Encounter", period |-> period] :
            period \in OptionOf(Periods)}
        \cup {[type |-> "DiagnosticReport", effective |-> effective] :
            effective \in OptionOf(Choices)}
        \cup {[type |-> "Flag", period |-> period] :
            period \in OptionOf(Periods)}
        \cup {[type |-> "Condition", asserted_date |-> asserted_date, onset |-> onset] :
            asserted_date \in OptionOf(FieldDateTimes), onset \in OptionOf(OpenChoices)}
        \cup {[type |-> "CareTeam", period |-> period] :
            period \in OptionOf(Periods)}
        \cup {[type |-> "CarePlan", period |-> period] :
            period \in OptionOf(Periods)}
        \cup {[type |-> "MedicationStatement", effective |-> effective] :
            effective \in OptionOf(Choices)}
        \cup {[type |-> "Procedure", performed |-> performed] :
            performed \in OptionOf(Choices)}
        \cup {[type |-> "ProcedureRequest", occurrence |-> occurrence] :
            occurrence \in OptionOf(OpenChoices)}

\* Self::Params: the selectors the type implements, and any other.
Params(type) ==
    CASE type = "Observation" -> {"Date", OtherParam}
      [] type = "EpisodeOfCare" -> {"Date", OtherParam}
      [] type = "Encounter" -> {"Date", OtherParam}
      [] type = "DiagnosticReport" -> {"Date", OtherParam}
      [] type = "Flag" -> {"Date", OtherParam}
      [] type = "Condition" -> {"AssertedDate", "OnsetDate", OtherParam}
      [] type = "CareTeam" -> {"Date", OtherParam}
      [] type = "CarePlan" -> {"Date", OtherParam}
      [] type = "MedicationStatement" -> {"Effective", OtherParam}
      [] type = "Procedure" -> {"Date", OtherParam}
      [] OTHER -> {"Occurrence", OtherParam}

InitResolve ==
    /\ resource \in Resources
    /\ selector \in Params(resource.type)
    /\ resolved = NoResult
    /\ a = NoValue /\ b = NoValue /\ c = None /\ res = NoResult
    /\ origin = "builder" /\ s = <<>> /\ s2 = <<>> /\ parsed = NoResult
    /\ input = NoValue /\ conv = NoResult
    /\ OthersIdle

\* resource.resolve(&selector): the impl of the record's type.
ResolveOf(self, param) ==
    CASE self.type = "Observation" -> ObservationResolve(self, param)
      [] self.type = "EpisodeOfCare" -> EpisodeOfCareResolve(self, param)
      [] self.type = "Encounter" -> EncounterResolve(self, param)
      [] self.type = "DiagnosticReport" -> DiagnosticReportResolve(self, param)
      [] self.type = "Flag" -> FlagResolve(self, param)
      [] self.type = "Condition" -> ConditionResolve(self, param)
      [] self.type = "CareTeam" -> CareTeamResolve(self, param)
      [] self.type = "CarePlan" -> CarePlanResolve(self, param)
      [] self.type = "MedicationStatement" -> MedicationStatementResolve(self, param)
      [] self.type = "Procedure" -> ProcedureResolve(self, param)
      [] OTHER -> ProcedureRequestResolve(self, param)

Resolve ==
    /\ resolved = NoResult
    /\ resolved' = [op |-> "resolve", out |-> ResolveOf(resource, selector)]
    /\ UNCHANGED <<compareVars, origin, s, s2, parsed, convertVars, resource,
                   selector, identifierVars, clientVars>>

NextResolve == Resolve

SpecResolve == InitResolve /\ [][NextResolve]_vars


HasResolved == resolved # NoResult

\* The value a period stands for: its start if it has one, else its end if
\* it has one, else none.
PeriodValue(p, value) ==
    /\ p.start # None => value = p.start
    /\ (p.start = None /\ p.end # None) => value = p.end
    /\ (p.start = None /\ p.end = None) => value = None

PeriodTypes == {"Encounter", "EpisodeOfCare", "Flag", "CareTeam", "CarePlan"}

\* The types with a dateTime-or-Period choice, the field holding it and the
\* selector reading it.
ChoiceTypes ==
    {"Observation", "DiagnosticReport", "MedicationStatement", "Procedure"}

ChoiceField(r) ==
    IF r.type = "Procedure" THEN r.performed ELSE r.effective

ChoiceSelector(type) ==
    IF type = "MedicationStatement" THEN "Effective" ELSE "Date"

\* C18: a record read by its period (Encounter, EpisodeOfCare, Flag,
\* CareTeam, CarePlan, and the Period alternative of a choice field)
\* resolves to the start of the period if present, whether or not the end
\* is, else to the end if present, else to None; an absent period field
\* resolves to None.
C18_PeriodStartElseEnd ==
    /\ (HasResolved /\ resource.type \in PeriodTypes /\ selector = "Date") =>
            /\ resolved.out.kind = "returned"
            /\ resource.period = None => resolved.out.value = None
            /\ resource.period # None =>
                    PeriodValue(resource.period[1], resolved.out.value)
    /\ (/\ HasResolved /\ resource.type \in ChoiceTypes
        /\ selector = ChoiceSelector(resource.type)
        /\ ChoiceField(resource) # None
        /\ ChoiceField(resource)[1].alt = "Period") =>
            /\ resolved.out.kind = "returned"
            /\ PeriodValue(ChoiceField(resource)[1].v, resolved.out.value)

\* An Encounter whose period has a start and a different end has resolved to
\* the start.
C18_Witness ==
    /\ HasResolved /\ resource.type = "Encounter" /\ selector = "Date"
    /\ resource.period # None
    /\ resource.period[1].start # None /\ resource.period[1].end # None
    /\ resource.period[1].start # resource.period[1].end
    /\ resolved.out = Returned(resource.period[1].start)

\* C19: a choice field (Observation.effective, DiagnosticReport.effective,
\* MedicationStatement.effective, Procedure.performed) resolves to exactly
\* its DateTime when it holds the DateTime alternative, by start-else-end
\* when it holds a Period, and to None when the field is absent.
C19_ChoiceByAlternative ==
    (/\ HasResolved /\ resource.type \in ChoiceTypes
     /\ selector = ChoiceSelector(resource.type)) =>
        LET field == ChoiceField(resource) IN
        /\ resolved.out.kind = "returned"
        /\ field = None => resolved.out.value = None
        /\ (field # None /\ field[1].alt = "DateTime") =>
                resolved.out.value = Some(field[1].v)
        /\ (field # None /\ field[1].alt = "Period") =>
                PeriodValue(field[1].v, resolved.out.value)

\* A Procedure performed at a DateTime has resolved to that DateTime.
C19_Witness ==
    /\ HasResolved /\ resource.type = "Procedure" /\ selector = "Date"
    /\ resource.performed # None /\ resource.performed[1].alt = "DateTime"
    /\ resolved.out = Returned(Some(resource.performed[1].v))

\* The selectors a type implements.
Implemented(type) == Params(type) \ {OtherParam}

\* C20: resolve with a selector the record type does not implement ends in
\* the explicit "not implemented" outcome, which is not the None of a
\* missing value, whatever the record holds.
C20_UnimplementedIsNotNone ==
    (HasResolved /\ selector \notin Implemented(resource.type)) =>
        /\ resolved.out.kind = "panic"
        /\ resolved.out # Returned(None)

\* A Flag without a period has been resolved with a selector it does not
\* implement: the value is missing too, and the outcome still is not None.
C20_Witness ==
    /\ HasResolved /\ resource.type = "Flag" /\ resource.period = None
    /\ selector = OtherParam
    /\ resolved.out.kind = "panic"

\* C26: a choice field holding an alternative that is neither DateTime nor
\* Period: Condition read by OnsetDate returns None, the outcome of a
\* Condition without onset, and ProcedureRequest read by Occurrence ends in
\* the "not implemented" outcome; neither returns a value.
C26_OtherAlternative ==
    /\ (/\ HasResolved /\ resource.type = "Condition" /\ selector = "OnsetDate"
        /\ resource.onset # None /\ resource.onset[1].alt = "Other") =>
            /\ resolved.out = Returned(None)
            /\ resolved.out = ResolveOf([resource EXCEPT !.onset = None], selector)
    /\ (/\ HasResolved /\ resource.type = "ProcedureRequest"
        /\ selector = "Occurrence"
        /\ resource.occurrence # None /\ resource.occurrence[1].alt = "Other") =>
            /\ resolved.out.kind = "panic"
            /\ resolved.out # ResolveOf([resource EXCEPT !.occurrence = None],
                                        selector)

\* A Condition whose onset is of another alternative has resolved to None.
C26_Witness ==
    /\ HasResolved /\ resource.type = "Condition" /\ selector = "OnsetDate"
    /\ resource.onset = Some(ChoiceOther)
    /\ resolved.out = Returned(None)

(***************************************************************************)
(* IdentifiableResource: the identifier list of a resource.                *)
(***************************************************************************)
MaxIdentifiers == 2
MaxCalls == 2

\* types::Identifier, by the fields place_identifier and the lookups read.
Identifier(system, type, value) ==
    [system |-> system, type |-> type, value |-> value]

\* PlaceIdentifier matching on the system alone.
PlaceIdentifier_SystemOnly(self, identifier) ==
    LET hits == {i \in 1 .. Len(self.identifier) :
                    /\ self.identifier[i] # None
                    /\ self.identifier[i][1].system # None
                    /\ self.identifier[i][1].system = identifier.system}
        first == CHOOSE i \in hits : \A j \in hits : i <= j
        pushed == Append(self.identifier, Some(identifier))
    IN  IF hits # {}
        THEN [self |-> [self EXCEPT !.identifier[first] = Some(identifier)],
              ret |-> FALSE]
        ELSE [self |->
                [identifier |-> pushed,
                 identifier_ext |->
                    IF /\ self.identifier_ext # <<>>
                       /\ Len(pushed) = Len(self.identifier_ext) + 1
                    THEN Append(self.identifier_ext, None)
                    ELSE self.identifier_ext],
              ret |-> TRUE]

\* PlaceIdentifier pushing onto the list alone.
PlaceIdentifier_NoExtension(self, identifier) ==
    LET hits == {i \in 1 .. Len(self.identifier) :
                    /\ self.identifier[i] # None
                    /\ \/ /\ self.identifier[i][1].system # None
                          /\ self.identifier[i][1].system = identifier.system
                       \/ /\ self.identifier[i][1].type # None
                          /\ self.identifier[i][1].type = identifier.type}
        first == CHOOSE i \in hits : \A j \in hits : i <= j
    IN  IF hits # {}
        THEN [self |-> [self EXCEPT !.identifier[first] = Some(identifier)],
              ret |-> FALSE]
        ELSE [self |-> [self EXCEPT !.identifier = Append(@, Some(identifier))],
              ret |-> TRUE]

\* IdentifiableResource::place_identifier: the resource after the call and
\* the value returned.
PlaceIdentifier(self, identifier) ==
    LET hits == {i \in 1 .. Len(self.identifier) :
                    /\ self.identifier[i] # None
                    /\ \/ /\ self.identifier[i][1].system # None
                          /\ self.identifier[i][1].system = identifier.system
                       \/ /\ self.identifier[i][1].type # None
                          /\ self.identifier[i][1].type = identifier.type}
        first == CHOOSE i \in hits : \A j \in hits : i <= j
        pushed == Append(self.identifier, Some(identifier))
    IN  IF hits # {}
        THEN [self |-> [self EXCEPT !.identifier[first] = Some(identifier)],
              ret |-> FALSE]
        ELSE [self |->
                [identifier |-> pushed,
                 identifier_ext |->
                    IF /\ self.identifier_ext # <<>>
                       /\ Len(pushed) = Len(self.identifier_ext) + 1
                    THEN Append(self.identifier_ext, None)
                    ELSE self.identifier_ext],
              ret |-> TRUE]

\* IdentifierWithSystem taking the last identifier of the system.
IdentifierWithSystem_Last(self, system) ==
    LET hits == {i \in 1 .. Len(self.identifier) :
                    /\ self.identifier[i] # None
                    /\ self.identifier[i][1].system = Some(system)
                    /\ self.identifier[i][1].value # None}
    IN  IF hits = {} THEN None
        ELSE self.identifier[CHOOSE i \in hits : \A j \in hits : i >= j][1].value

\* IdentifiableResource::identifier_with_system
IdentifierWithSystem(self, system) ==
    LET hits == {i \in 1 .. Len(self.identifier) :
                    /\ self.identifier[i] # None
                    /\ self.identifier[i][1].system = Some(system)
                    /\ self.identifier[i][1].value # None}
    IN  IF hits = {} THEN None
        ELSE self.identifier[CHOOSE i \in hits : \A j \in hits : i <= j][1].value

\* The identifiers a list holds at first, and the ones placed.
HeldIdentifiers ==
    {Identifier(sy, ty, va) :
        sy \in OptionOf({"urn:a", "urn:b"}), ty \in OptionOf({"MR"}),
        va \in {Some("old")}}

PlacedIdentifiers ==
    {Identifier(sy, ty, va) :
        sy \in OptionOf({"urn:a", "urn:b"}), ty \in OptionOf({"MR"}),
        va \in OptionOf({"new"})}

IdentifierLists ==
    UNION {[1 .. n -> OptionOf(HeldIdentifiers)] : n \in 0 .. MaxIdentifiers}

\* The extension list: empty, aligned with the identifiers (one of them
\* carrying an extension), or one entry whatever the number of identifiers.
ExtensionLists(list) ==
    {<<>>, [i \in 1 .. Len(list) |-> IF i = 1 THEN Some("ext") ELSE None],
     <<None>>}

InitIdentifier ==
    /\ \E list \in IdentifierLists :
        \E ext \in ExtensionLists(list) :
            this = [identifier |-> list, identifier_ext |-> ext]
    /\ placed = NoResult
    /\ a = NoValue /\ b = NoValue /\ c = None /\ res = NoResult
    /\ origin = "builder" /\ s = <<>> /\ s2 = <<>> /\ parsed = NoResult
    /\ input = NoValue /\ conv = NoResult
    /\ resource = NoValue /\ selector = "none" /\ resolved = NoResult
    /\ server = NoValue /\ call = NoResult
    /\ failure = NoValue /\ retry = NoResult

\* resource.place_identifier(identifier)
Place ==
    \E identifier \in PlacedIdentifiers :
        LET calls == IF placed = NoResult THEN 0 ELSE placed.calls
            r == PlaceIdentifier(this, identifier)
        IN  /\ calls < MaxCalls
            /\ this' = r.self
            /\ placed' = [op |-> "place_identifier", calls |-> calls + 1,
                          arg |-> identifier, ret |-> r.ret, before |-> this,
                          first |-> IF placed = NoResult THEN this
                                    ELSE placed.first,
                          found |-> None]
            /\ UNCHANGED <<compareVars, origin, s, s2, parsed, convertVars,
                           resolveVars, clientVars>>

\* resource.identifier_with_system(system), on the resource as the last
\* place_identifier left it.
Lookup ==
    \E system \in {"urn:a", "urn:b"} :
        /\ placed # NoResult
        /\ placed.found = None
        /\ placed' = [placed EXCEPT
                        !.found = Some([system |-> system,
                                        out |-> IdentifierWithSystem(this, system)])]
        /\ UNCHANGED <<this, compareVars, origin, s, s2, parsed, convertVars,
                       resolveVars, clientVars>>

NextIdentifier == Place \/ Lookup

SpecIdentifier == InitIdentifier /\ [][NextIdentifier]_vars

\* The positions of the non-null entries of a list that share a non-null
\* system or a non-null type with an identifier.
SameSystemOrType(list, identifier) ==
    {i \in 1 .. Len(list) :
        /\ list[i] # None
        /\ \/ list[i][1].system # None /\ list[i][1].system = identifier.system
           \/ list[i][1].type # None /\ list[i][1].type = identifier.type}

\* C21: place_identifier(X) replaces the first non-null entry sharing a
\* non-null system or a non-null type with X, leaving the length and every
\* other entry as they were, and returns false; when no entry does, it
\* appends X at the end and returns true.
C21_ReplaceFirstElseAppend ==
    placed.op = "place_identifier" =>
        LET old == placed.before.identifier
            new == this.identifier
            hits == SameSystemOrType(old, placed.arg)
        IN  IF hits # {}
            THEN /\ placed.ret = FALSE
                 /\ Len(new) = Len(old)
                 /\ \A i \in 1 .. Len(old) :
                        new[i] = IF i \in hits /\ \A j \in hits : i <= j
                                 THEN Some(placed.arg) ELSE old[i]
            ELSE /\ placed.ret = TRUE
                 /\ new = Append(old, Some(placed.arg))

\* A call that found two entries to replace, the first of them by its type
\* alone, and replaced the first.
C21_Witness ==
    /\ placed.op = "place_identifier"
    /\ placed.ret = FALSE
    /\ SameSystemOrType(placed.before.identifier, placed.arg) = {1, 2}
    /\ placed.before.identifier[1][1].system # placed.arg.system
    /\ this.identifier[1] = Some(placed.arg)
    /\ this.identifier[2] = placed.before.identifier[2]

\* C27: after place_identifier(X) with X.system = Some(s) and
\* X.value = Some(v), whatever the list was before,
\* identifier_with_system(s) returns Some(v).
C27_PlacedIsFound ==
    (/\ placed.op = "place_identifier"
     /\ placed.found # None
     /\ placed.arg.system = Some(placed.found[1].system)
     /\ placed.arg.value # None)
        => placed.found[1].out = placed.arg.value

\* X took the place of an entry of its type while a later entry carries
\* X's system with another value, and the lookup by X's system gave X's
\* value.
C27_Witness ==
    /\ placed.op = "place_identifier"
    /\ placed.found # None
    /\ placed.arg.system = Some(placed.found[1].system)
    /\ placed.arg.value = Some("new")
    /\ Len(this.identifier) = 2
    /\ this.identifier[1] = Some(placed.arg)
    /\ this.identifier[2] # None
    /\ this.identifier[2][1].system = placed.arg.system
    /\ this.identifier[2][1].value = Some("old")
    /\ placed.found[1].out = Some("new")

\* C28: identifier and identifier_ext stay aligned: when identifier_ext is
\* non-empty and as long as identifier before the first call, the two lists
\* have equal lengths after every later call; when identifier_ext is empty
\* it stays empty.
C28_ExtensionsStayAligned ==
    placed.op = "place_identifier" =>
        /\ (/\ placed.first.identifier_ext # <<>>
            /\ Len(placed.first.identifier_ext) = Len(placed.first.identifier))
              => Len(this.identifier_ext) = Len(this.identifier)
        /\ placed.first.identifier_ext = <<>> => this.identifier_ext = <<>>

\* Two calls that each appended to a resource whose lists were aligned and
\* non-empty: both lists are two entries longer, the new extensions null.
C28_Witness ==
    /\ placed.op = "place_identifier"
    /\ placed.calls = 2
    /\ placed.ret = TRUE
    /\ placed.first.identifier_ext # <<>>
    /\ Len(placed.first.identifier_ext) = Len(placed.first.identifier)
    /\ Len(this.identifier) = Len(placed.first.identifier) + 2
    /\ Len(this.identifier_ext) = Len(this.identifier)
    /\ this.identifier_ext[Len(this.identifier_ext)] = None
    /\ this.identifier_ext[1] = Some("ext")

\* 2024-01-01T00:30:00+02:00, 2023-12-31 and 2023-12-31T23:00:00Z
InstantEarlyPlus2 ==
    DateTimeOfInstant(OffsetDateTime(RawDate(2024, 1, 1), 0, 30, 0, 0, 7200))
DateLastOf2023 == DateTimeOfDate(FullDate(RawDate(2023, 12, 31)))
InstantLateUtc ==
    DateTimeOfInstant(OffsetDateTime(RawDate(2023, 12, 31), 23, 0, 0, 0, 0))

\* C24: the ordering of DateTime is not transitive even among values of
\* full-date precision or finer: an Instant A written with a later calendar
\* date than the full Date D, and an Instant B written with the date D in
\* another offset and a later moment than A, give A > D, D == B and A < B;
\* so do 2024-01-01T00:30:00+02:00, 2023-12-31 and 2023-12-31T23:00:00Z.
C24_NotTransitiveAtFullPrecision ==
    res.op = "DateTimeChain" =>
        /\ (/\ RawDateCmp(OdtDate(a.v), b.v.date) = Greater
            /\ OdtDate(c[1]) = b.v.date
            /\ OdtAbsolute(a.v) < OdtAbsolute(c[1]))
              => /\ res.ordAB = Some(Greater) /\ ~res.eqAB
                 /\ res.ordBC = Some(Equal) /\ res.eqBC
                 /\ res.ordAC = Some(Less) /\ ~res.eqAC
        /\ DateTimeCmp(InstantEarlyPlus2, DateLastOf2023) = Greater
        /\ DateTimeEq(DateLastOf2023, InstantLateUtc)
        /\ DateTimeCmp(DateLastOf2023, InstantLateUtc) = Equal
        /\ DateTimeCmp(InstantEarlyPlus2, InstantLateUtc) = Less

\* 2024-01-02T00:00:00+01:00 > 2024-01-01 == 2024-01-01T23:00:00-01:00, and
\* the first is less than the last.
C24_Witness ==
    /\ res.op = "DateTimeChain"
    /\ a.v = OffsetDateTime(RawDate(2024, 1, 2), 0, 0, 0, 0, 3600)
    /\ b.v = FullDate(RawDate(2024, 1, 1))
    /\ c = Some(OffsetDateTime(RawDate(2024, 1, 1), 23, 0, 0, 0, 0 - 3600))
    /\ a.v.offset # c[1].offset
    /\ res.ordAB = Some(Greater)
    /\ res.eqBC /\ res.ordBC = Some(Equal)
    /\ res.ordAC = Some(Less)

\* C25: the derived Hash is not consistent with the hand-written equality:
\* Date::Year(2024) == Date::YearMonth(2024, February), and what the two
\* feed to a hasher (the variant tag and the fields) differs. Two equal
\* Dates feed the same input exactly when they have the same precision and
\* the same components, and a DateTime wrapping a Date never feeds the input
\* of one wrapping an Instant, equal to it or not.
C25_HashNotConsistentWithEq ==
    res.op = "Hash" =>
        /\ res.dates # None =>
              /\ (res.dates[1].eq /\ res.dates[1].hash = res.dates[1].hashOther)
                    <=> /\ Precision(a.v) = Precision(b.v)
                        /\ Components(a.v) = Components(b.v)
              /\ (res.eq /\ res.hash = res.hashOther)
                    <=> /\ Precision(a.v) = Precision(b.v)
                        /\ Components(a.v) = Components(b.v)
              /\ (a.v = Year(2024) /\ b.v = YearMonth(2024, 2))
                    => /\ res.dates[1].eq
                       /\ res.dates[1].hash # res.dates[1].hashOther
        /\ a.tag # b.tag => res.hash # res.hashOther

\* Year(2024) and YearMonth(2024, February) are equal and hashed
\* differently.
C25_Witness ==
    /\ res.op = "Hash"
    /\ a = DateTimeOfDate(Year(2024))
    /\ b = DateTimeOfDate(YearMonth(2024, 2))
    /\ res.dates # None
    /\ res.dates[1].eq /\ res.eq
    /\ res.dates[1].hash # res.dates[1].hashOther
    /\ res.hash # res.hashOther

(***************************************************************************)
(* client::Error and its retry hint.                                       *)
(***************************************************************************)
\* reqwest::Error as should_retry sees it: its kind, and whether a connect
\* failure or a timeout lies in its source chain.
ReqwestError(kind, connect, timeout) ==
    [kind |-> kind, connect |-> connect, timeout |-> timeout]

ReqwestKinds ==
    {"Builder", "Request", "Redirect", "Status", "Body", "Decode", "Upgrade"}

\* The variants of client::Error.
ErrorRequest(err) == [variant |-> "Request", err |-> err]
ErrorResponse(variant, status, body) ==
    [variant |-> variant, status |-> status, body |-> body]
ErrorOf(variant, text) == [variant |-> variant, text |-> text]
ErrorUnit(variant) == [variant |-> variant]

StatusCodes == {200, 201, 400, 404, 410, 412, 500, 503}

Errors ==
    {ErrorRequest(ReqwestError(k, co, ti)) :
        k \in ReqwestKinds, co \in BOOLEAN, ti \in BOOLEAN}
        \cup {ErrorResponse(v, st, "body") :
                v \in {"Response", "OperationOutcomeR4B", "OperationOutcomeR5",
                       "OperationOutcomeStu3"},
                st \in {x \in StatusCodes : x >= 400}}
        \cup {ErrorOf(v, "text") :
                v \in {"BuilderMissingField", "UrlParse", "DifferentOrigin",
                       "AuthCallback", "Json", "ResourceNotFound",
                       "EtagFailure", "LocationFailure", "WrongResourceType",
                       "UnexpectedResourceType"}}
        \cup {ErrorUnit(v) :
                v \in {"UrlCannotBeBase", "MissingId", "MissingVersionId",
                       "MissingReference", "LocalReference",
                       "RequestNotClone"}}

\* ShouldRetry with every transport error worth a retry.
ShouldRetry_AnyRequest(self) == self.variant = "Request"

\* Error::should_retry: is_connect() || is_request() || is_timeout() of the
\* reqwest::Error of a Request, false for any other variant.
ShouldRetry(self) ==
    IF self.variant = "Request"
    THEN self.err.connect \/ self.err.kind = "Request" \/ self.err.timeout
    ELSE FALSE

InitError ==
    /\ failure \in Errors
    /\ retry = NoResult
    /\ a = NoValue /\ b = NoValue /\ c = None /\ res = NoResult
    /\ origin = "builder" /\ s = <<>> /\ s2 = <<>> /\ parsed = NoResult
    /\ input = NoValue /\ conv = NoResult
    /\ resource = NoValue /\ selector = "none" /\ resolved = NoResult
    /\ this = NoValue /\ placed = NoResult
    /\ server = NoValue /\ call = NoResult

\* error.should_retry(): the error is borrowed, not changed.
AskRetry ==
    /\ retry = NoResult
    /\ retry' = [op |-> "should_retry", of |-> failure,
                 out |-> ShouldRetry(failure)]
    /\ UNCHANGED <<compareVars, origin, s, s2, parsed, convertVars,
                   resolveVars, identifierVars, server, call, failure>>

NextError == AskRetry

SpecError == InitError /\ [][NextError]_vars

\* C30: should_retry is true only for Error::Request whose underlying error
\* is a connect, request or timeout failure, false for every other variant,
\* and the error is after the call what it was before.
C30_RetryOnlyTransportFailures ==
    retry.op = "should_retry" =>
        /\ retry.out <=>
              /\ failure.variant = "Request"
              /\ \/ failure.err.connect
                 \/ failure.err.kind = "Request"
                 \/ failure.err.timeout
        /\ failure.variant # "Request" => ~retry.out
        /\ failure = retry.of

\* A transport error that is none of the three (a body that could not be
\* decoded) has been asked and is not worth a retry.
C30_Witness ==
    /\ retry.op = "should_retry"
    /\ failure = ErrorRequest(ReqwestError("Decode", FALSE, FALSE))
    /\ ~retry.out

(***************************************************************************)
(* Client (R4B): REST calls against a FHIR server holding one resource,    *)
(* Patient/1.                                                              *)
(***************************************************************************)
MaxVersion == 2

BaseUrl == "http://server/fhir"
MirrorUrl == "http://server/mirror"
NotAUrl == "::"

\* A URL: the base it lies under and the path segments below it.
Url(base, path) == [base |-> base, path |-> path]

HttpRequest(method, url, if_match) ==
    [method |-> method, url |-> url, if_match |-> if_match]

HttpResponse(status, etag, location, body) ==
    [status |-> status, etag |-> etag, location |-> location, body |-> body]

\* A body: a resource in one of its versions, or an OperationOutcome.
ResourceBody(type, id, version_id) ==
    [kind |-> "resource", type |-> type, id |-> id, version_id |-> version_id]
OutcomeBody ==
    [kind |-> "outcome", type |-> "OperationOutcome", id |-> None,
     version_id |-> None]

\* The id of the n-th version.
VersionId(n) == <<"1", "2", "3", "4">>[n]

\* format!("W/\"{version_id}\""): the parts of a weak entity tag.
WeakEtag(version_id) == <<"W/", "\"", version_id, "\"">>

\* The server: whether Patient/1 was never stored, is stored or was deleted,
\* its current version, whether the server answers 410 for a deleted
\* resource (else 404) and whether it sends ETag headers.
Server(state, version, tracks, etags) ==
    [state |-> state, version |-> version, tracks |-> tracks, etags |-> etags]

\* The server's answer to a request, and the server after it.
Serve(srv, request) ==
    LET path == request.url.path
        here == request.url.base = BaseUrl /\ Len(path) >= 1
                    /\ path[1] = "Patient"
        one == here /\ Len(path) >= 2 /\ path[2] = "1"
        tag(n) == IF srv.etags THEN Some(WeakEtag(VersionId(n))) ELSE None
        stored(n) == ResourceBody("Patient", Some("1"), Some(VersionId(n)))
        refuse(status) ==
            [server |-> srv,
             response |-> HttpResponse(status, None, None, OutcomeBody)]
    IN  CASE request.method = "GET" /\ one /\ Len(path) = 2 ->
                IF srv.state = "present"
                THEN [server |-> srv,
                      response |-> HttpResponse(200, tag(srv.version), None,
                                                stored(srv.version))]
                ELSE IF srv.state = "deleted" /\ srv.tracks THEN refuse(410)
                ELSE refuse(404)
          [] request.method = "GET" /\ one /\ Len(path) = 4
                /\ path[3] = "_history" ->
                IF \E n \in 1 .. srv.version : VersionId(n) = path[4]
                THEN LET n == CHOOSE n \in 1 .. srv.version :
                                    VersionId(n) = path[4]
                     IN  [server |-> srv,
                          response |-> HttpResponse(200, tag(n), None,
                                                    stored(n))]
                ELSE refuse(404)
          [] request.method = "POST" /\ here /\ Len(path) = 1
                /\ srv.state = "absent" ->
                [server |-> [srv EXCEPT !.state = "present", !.version = 1],
                 response |->
                    HttpResponse(201, tag(1),
                        Some(<<"Patient", "1", "_history", VersionId(1)>>),
                        stored(1))]
          [] request.method = "PUT" /\ one /\ Len(path) = 2 ->
                IF /\ request.if_match # None
                   /\ \/ srv.state # "present"
                      \/ request.if_match[1] # WeakEtag(VersionId(srv.version))
                THEN refuse(412)
                ELSE [server |-> [srv EXCEPT !.state = "present",
                                             !.version = srv.version + 1],
                      response |->
                        HttpResponse(IF srv.state = "present" THEN 200 ELSE 201,
                                     tag(srv.version + 1), None,
                                     stored(srv.version + 1))]
          [] request.method = "DELETE" /\ one /\ Len(path) = 2
                /\ srv.state # "absent" ->
                [server |-> [srv EXCEPT !.state = "deleted"],
                 response |-> HttpResponse(204, None, None, OutcomeBody)]
          [] OTHER -> refuse(404)

\* What can go wrong between the client and the server.
Faults == {"none", "transport", "unavailable"}

\* Client::run_request / fetch_url: the transport fails, or the client gets
\* a response, the server's or a 503 from in between.
RunRequest(srv, request, fault) ==
    CASE fault = "transport" ->
            [server |-> srv, sent |-> Some(request), received |-> None,
             result |-> Err(ErrorRequest(ReqwestError("Request", TRUE, FALSE)))]
      [] fault = "unavailable" ->
            LET response == HttpResponse(503, None, None, OutcomeBody)
            IN  [server |-> srv, sent |-> Some(request),
                 received |-> Some(response), result |-> Ok(response)]
      [] OTHER ->
            LET r == Serve(srv, request)
            IN  [server |-> r.server, sent |-> Some(request),
                 received |-> Some(r.response), result |-> Ok(r.response)]

IsSuccess(status) == 200 <= status /\ status < 300

\* response.successful(): the response, or the error a non-success status
\* stands for.
Successful(response) ==
    IF IsSuccess(response.status) THEN Ok(response)
    ELSE Err(ErrorResponse("OperationOutcomeR4B", response.status, "body"))

\* response.body::<R>(): the body read as a resource of one of the types R
\* admits.
Body(response, types) ==
    IF ~IsSuccess(response.status) THEN Successful(response)
    ELSE IF response.body.kind = "resource" /\ response.body.type \in types
    THEN Ok(response.body)
    ELSE Err(ErrorOf("Json", "text"))

\* misc::parse_etag: the version id inside a weak entity tag; fails on a
\* missing or malformed ETag.
ParseEtag(response) ==
    IF /\ response.etag # None
       /\ Len(response.etag[1]) = 4
       /\ response.etag[1][1] = "W/"
    THEN Ok(response.etag[1][3])
    ELSE Err(ErrorOf("EtagFailure", "text"))

\* misc::parse_location: the id and the version id in a Location header.
ParseLocation(response) ==
    IF response.location = None THEN Err(ErrorOf("LocationFailure", "text"))
    ELSE LET path == response.location[1]
         IN  Ok([id |-> path[2],
                 version_id |-> IF Len(path) >= 4 /\ path[3] = "_history"
                                THEN Some(path[4]) ELSE None])

\* A call that ended before any request was sent.
Unsent(srv, error) ==
    [server |-> srv, sent |-> None, received |-> None, result |-> Err(error)]

\* ReadGeneric answering None to any status that is not a success.
ReadGeneric_NoneOnAnyFailure(srv, url, types, fault) ==
    LET ran == RunRequest(srv, HttpRequest("GET", url, None), fault)
    IN  [ran EXCEPT !.result =
            IF ~ran.result.ok THEN ran.result
            ELSE IF ~IsSuccess(ran.result.v.status) THEN Ok(None)
            ELSE LET body == Body(ran.result.v, types)
                 IN  IF body.ok THEN Ok(Some(body.v)) ELSE body]

\* Client::read_generic
ReadGeneric(srv, url, types, fault) ==
    LET ran == RunRequest(srv, HttpRequest("GET", url, None), fault)
    IN  [ran EXCEPT !.result =
            IF ~ran.result.ok THEN ran.result
            ELSE IF ran.result.v.status \in {404, 410} THEN Ok(None)
            ELSE LET body == Body(ran.result.v, types)
                 IN  IF body.ok THEN Ok(Some(body.v)) ELSE body]

ResourceTypes == {"Patient", "Observation"}

\* A reference string: "#id", "Type/id" or "base/Type/id".
LocalRef(id) == [form |-> "local", base |-> "", type |-> "", id |-> id]
RelativeRef(type, id) ==
    [form |-> "relative", base |-> "", type |-> type, id |-> id]
AbsoluteRef(base, type, id) ==
    [form |-> "absolute", base |-> base, type |-> type, id |-> id]

\* types::Reference, by the fields read_referenced reads.
Reference(reference, type) == [reference |-> reference, type |-> type]

\* ReadReferenced trusting the type the reference states.
ReadReferenced_TypeUnchecked(srv, reference, fault) ==
    IF reference.reference = None
    THEN Unsent(srv, ErrorUnit("MissingReference"))
    ELSE LET parsed_reference == reference.reference[1]
         IN  IF parsed_reference.form = "local"
             THEN Unsent(srv, ErrorUnit("LocalReference"))
             ELSE IF parsed_reference.base = NotAUrl
             THEN Unsent(srv, ErrorOf("UrlParse", "text"))
             ELSE
    LET url == Url(IF parsed_reference.form = "relative" THEN BaseUrl
                   ELSE parsed_reference.base,
                   <<parsed_reference.type, parsed_reference.id>>)
        read == ReadGeneric(srv, url, ResourceTypes, fault)
    IN  [read EXCEPT !.result =
            IF ~read.result.ok THEN read.result
            ELSE IF read.result.v = None
            THEN Err(ErrorOf("ResourceNotFound", "text"))
            ELSE Ok(read.result.v[1])]

\* Client::read_referenced
ReadReferenced(srv, reference, fault) ==
    IF reference.reference = None
    THEN Unsent(srv, ErrorUnit("MissingReference"))
    ELSE LET parsed_reference == reference.reference[1]
         IN  IF parsed_reference.form = "local"
             THEN Unsent(srv, ErrorUnit("LocalReference"))
             ELSE IF parsed_reference.base = NotAUrl
             THEN Unsent(srv, ErrorOf("UrlParse", "text"))
             ELSE
    LET url == Url(IF parsed_reference.form = "relative" THEN BaseUrl
                   ELSE parsed_reference.base,
                   <<parsed_reference.type, parsed_reference.id>>)
        read == ReadGeneric(srv, url, ResourceTypes, fault)
    IN  [read EXCEPT !.result =
            IF ~read.result.ok THEN read.result
            ELSE IF read.result.v = None
            THEN Err(ErrorOf("ResourceNotFound", "text"))
            ELSE IF /\ reference.type # None
                    /\ read.result.v[1].type # reference.type[1]
            THEN Err(ErrorOf("WrongResourceType", "text"))
            ELSE Ok(read.result.v[1])]

\* Client::create
Create(srv, type, fault) ==
    LET ran == RunRequest(srv, HttpRequest("POST", Url(BaseUrl, <<type>>), None),
                          fault)
    IN  [ran EXCEPT !.result =
            IF ~ran.result.ok THEN ran.result
            ELSE IF ~IsSuccess(ran.result.v.status)
            THEN Err(Successful(ran.result.v).err)
            ELSE LET location == ParseLocation(ran.result.v)
                     etag == ParseEtag(ran.result.v)
                 IN  IF ~location.ok THEN location
                     ELSE Ok([id |-> location.v.id,
                              version_id |->
                                IF location.v.version_id # None
                                THEN location.v.version_id
                                ELSE IF etag.ok THEN Some(etag.v) ELSE None])]

\* Update sending the version it has with every update.
Update_AlwaysIfMatch(srv, given, conditional, fault) ==
    IF given.id = None THEN Unsent(srv, ErrorUnit("MissingId"))
    ELSE IF given.version_id = None
    THEN Unsent(srv, ErrorUnit("MissingVersionId"))
    ELSE IF given.version_id[1] = "\n"
    THEN Unsent(srv, ErrorUnit("MissingVersionId"))
    ELSE
    LET request ==
            HttpRequest("PUT", Url(BaseUrl, <<given.type, given.id[1]>>),
                        Some(WeakEtag(given.version_id[1])))
        ran == RunRequest(srv, request, fault)
    IN  [ran EXCEPT !.result =
            IF ~ran.result.ok THEN ran.result
            ELSE IF ~IsSuccess(ran.result.v.status)
            THEN Err(Successful(ran.result.v).err)
            ELSE LET version_id == ParseEtag(ran.result.v)
                 IN  IF ~version_id.ok THEN version_id
                     ELSE Ok([created |-> ran.result.v.status = 201,
                              version_id |-> version_id.v])]

\* Client::update. HeaderValue::from_str refuses a version id with a line
\* break in it.
Update(srv, given, conditional, fault) ==
    IF given.id = None THEN Unsent(srv, ErrorUnit("MissingId"))
    ELSE IF conditional /\ given.version_id = None
    THEN Unsent(srv, ErrorUnit("MissingVersionId"))
    ELSE IF conditional /\ given.version_id[1] = "\n"
    THEN Unsent(srv, ErrorUnit("MissingVersionId"))
    ELSE
    LET request ==
            HttpRequest("PUT", Url(BaseUrl, <<given.type, given.id[1]>>),
                        IF conditional
                        THEN Some(WeakEtag(given.version_id[1])) ELSE None)
        ran == RunRequest(srv, request, fault)
    IN  [ran EXCEPT !.result =
            IF ~ran.result.ok THEN ran.result
            ELSE IF ~IsSuccess(ran.result.v.status)
            THEN Err(Successful(ran.result.v).err)
            ELSE LET version_id == ParseEtag(ran.result.v)
                 IN  IF ~version_id.ok THEN version_id
                     ELSE Ok([created |-> ran.result.v.status = 201,
                              version_id |-> version_id.v])]

\* Client::delete
Delete(srv, type, id, fault) ==
    LET ran == RunRequest(srv,
                          HttpRequest("DELETE", Url(BaseUrl, <<type, id>>), None),
                          fault)
    IN  [ran EXCEPT !.result =
            IF ~ran.result.ok THEN ran.result
            ELSE LET checked == Successful(ran.result.v)
                 IN  IF checked.ok THEN Ok(None) ELSE checked]

\* How far the calls so far are into create, read, delete, read on
\* Patient/1, each answered by the server: 1 after the create, 2 after the
\* read that follows it, 3 after the delete, 4 after the last read.
Crud(op, target, fault, ok) ==
    LET before == IF call = NoResult THEN 0 ELSE call.crud
        one == target = <<"Patient", "1">>
    IN  IF op = "create" /\ ok THEN 1
        ELSE IF before = 1 /\ op = "read" /\ one /\ fault = "none" THEN 2
        ELSE IF before = 2 /\ op = "delete" /\ one /\ ok THEN 3
        ELSE IF before = 3 /\ op = "read" /\ one /\ fault = "none" THEN 4
        ELSE 0

\* The record of a call: what was asked, what was sent and received, what
\* came back.
Called(op, arg, target, fault, r) ==
    [op |-> op, arg |-> arg, target |-> target, fault |-> fault,
     before |-> server, sent |-> r.sent, received |-> r.received,
     out |-> r.result, crud |-> Crud(op, target, fault, r.result.ok)]

IdleExceptClient ==
    UNCHANGED <<compareVars, origin, s, s2, parsed, convertVars, resolveVars,
                identifierVars, failure, retry>>

InitClient ==
    /\ server \in {Server("absent", 0, tracks, etags) :
                        tracks \in BOOLEAN, etags \in BOOLEAN}
                  \cup {Server("present", 1, tracks, etags) :
                        tracks \in BOOLEAN, etags \in BOOLEAN}
    /\ call = NoResult
    /\ a = NoValue /\ b = NoValue /\ c = None /\ res = NoResult
    /\ origin = "builder" /\ s = <<>> /\ s2 = <<>> /\ parsed = NoResult
    /\ input = NoValue /\ conv = NoResult
    /\ resource = NoValue /\ selector = "none" /\ resolved = NoResult
    /\ this = NoValue /\ placed = NoResult
    /\ failure = NoValue /\ retry = NoResult

\* client.create(&patient): the server names the new resource Patient/1.
ClientCreate ==
    \E fault \in Faults :
        LET r == Create(server, "Patient", fault)
        IN  /\ server.state = "absent"
            /\ server' = r.server
            /\ call' = Called("create", "Patient", <<"Patient">>, fault, r)
            /\ IdleExceptClient

\* client.read::<R>(id)
ClientRead ==
    \E type \in ResourceTypes, id \in {"1", "2"}, fault \in Faults :
        LET r == ReadGeneric(server, Url(BaseUrl, <<type, id>>), {type}, fault)
        IN  /\ server' = r.server
            /\ call' = Called("read", type, <<type, id>>, fault, r)
            /\ IdleExceptClient

\* client.read_version::<R>(id, version_id)
ClientReadVersion ==
    \E type \in ResourceTypes, version_id \in {"1", "2", "3"},
       fault \in Faults :
        LET r == ReadGeneric(server,
                             Url(BaseUrl, <<type, "1", "_history", version_id>>),
                             {type}, fault)
        IN  /\ server' = r.server
            /\ call' = Called("read_version", type,
                              <<type, "1", "_history", version_id>>, fault, r)
            /\ IdleExceptClient

\* client.update(&resource, conditional)
ClientUpdate ==
    \E id \in {None, Some("1"), Some("2")},
       version_id \in {None, Some("1"), Some("2"), Some("\n")},
       conditional \in BOOLEAN, fault \in Faults :
        LET arg == [type |-> "Patient", id |-> id, version_id |-> version_id,
                    conditional |-> conditional]
            r == Update(server, arg, conditional, fault)
        IN  /\ server.version < MaxVersion
            /\ server' = r.server
            /\ call' = Called("update", arg, <<"Patient">> \o id, fault, r)
            /\ IdleExceptClient

\* client.delete(ResourceType::Patient, id)
ClientDelete ==
    \E id \in {"1", "2"}, fault \in Faults :
        LET r == Delete(server, "Patient", id, fault)
        IN  /\ server' = r.server
            /\ call' = Called("delete", "Patient", <<"Patient", id>>, fault, r)
            /\ IdleExceptClient

\* The references read_referenced is given.
References ==
    {Reference(reference, type) :
        reference \in {None, Some(LocalRef("1")), Some(RelativeRef("Patient", "1")),
                       Some(RelativeRef("Patient", "2")),
                       Some(AbsoluteRef(BaseUrl, "Patient", "1")),
                       Some(AbsoluteRef(MirrorUrl, "Patient", "1")),
                       Some(AbsoluteRef(NotAUrl, "Patient", "1"))},
        type \in {None, Some("Patient"), Some("Observation")}}

\* client.read_referenced(&reference)
ClientReadReferenced ==
    \E reference \in References, fault \in Faults :
        LET r == ReadReferenced(server, reference, fault)
        IN  /\ server' = r.server
            /\ call' = Called("read_referenced", reference, <<>>, fault, r)
            /\ IdleExceptClient

NextClient ==
    \/ ClientCreate
    \/ ClientRead
    \/ ClientReadVersion
    \/ ClientUpdate
    \/ ClientDelete
    \/ ClientReadReferenced

SpecClient == InitClient /\ [][NextClient]_vars

\* C22: read and read_version return Ok(None) exactly when the server
\* answers 404 Not Found or 410 Gone, and Ok(Some(resource)) when the body
\* parses as the requested resource; so in create, read, delete, read on
\* one resource id the first read returns Some and the read after the
\* successful delete returns Ok(None), not an error.
C22_ReadNoneIffNotFoundOrGone ==
    call.op \in {"read", "read_version"} =>
        /\ call.out = Ok(None)
              <=> /\ call.received # None
                  /\ call.received[1].status \in {404, 410}
        /\ (/\ call.received # None
            /\ IsSuccess(call.received[1].status)
            /\ call.received[1].body.kind = "resource"
            /\ call.received[1].body.type = call.arg)
              => call.out = Ok(Some(call.received[1].body))
        /\ call.crud = 2 => call.out.ok /\ call.out.v # None
        /\ call.crud = 4 => call.out = Ok(None)

\* Patient/1 was created, read, deleted and read again, and the server
\* answered the last read with 410 Gone: the read returned Ok(None).
C22_Witness ==
    /\ call.op = "read"
    /\ call.crud = 4
    /\ call.received # None
    /\ call.received[1].status = 410
    /\ call.out = Ok(None)

\* What update does before and while sending: the two early failures, with
\* nothing sent, and the If-Match header of the request.
UpdateSends ==
    /\ call.arg.id = None =>
            call.out = Err(ErrorUnit("MissingId")) /\ call.sent = None
    /\ (call.arg.id # None /\ call.arg.conditional
            /\ call.arg.version_id = None) =>
            call.out = Err(ErrorUnit("MissingVersionId")) /\ call.sent = None
    /\ call.sent # None =>
            /\ call.sent[1].method = "PUT"
            /\ call.sent[1].if_match =
                    IF call.arg.conditional
                    THEN Some(<<"W/", "\"", call.arg.version_id[1], "\"">>)
                    ELSE None
    /\ (call.received # None /\ ~IsSuccess(call.received[1].status)) =>
            ~call.out.ok

\* C23: update fails with MissingId when the resource has no id and, when
\* conditional, with MissingVersionId when it has no meta.versionId, both
\* before any request is sent; a conditional update carries If-Match
\* W/"<versionId>" and an unconditional one no If-Match; on a success status
\* it returns (created, version), created being true exactly for 201
\* Created; on a non-success status it returns an error.
C23_UpdateContract ==
    call.op = "update" =>
        /\ UpdateSends
        /\ (call.received # None /\ IsSuccess(call.received[1].status)) =>
                /\ call.out.ok
                /\ call.out.v.created <=> call.received[1].status = 201

\* C23, amended: as C23, except that on a success status update returns
\* (created, version) only when the response carries an ETag that parses to
\* a version id, the version returned; on a success status without one it
\* returns Error::EtagFailure.
C23_UpdateContractWithEtag ==
    call.op = "update" =>
        /\ UpdateSends
        /\ (call.received # None /\ IsSuccess(call.received[1].status)) =>
                IF call.received[1].etag # None
                THEN /\ call.out.ok
                     /\ call.out.v.created <=> call.received[1].status = 201
                     /\ call.received[1].etag[1] =
                            <<"W/", "\"", call.out.v.version_id, "\"">>
                ELSE /\ ~call.out.ok
                     /\ call.out.err.variant = "EtagFailure"

\* A conditional update of Patient/1 went out with the If-Match of the
\* version held, and the server answered 200 with the ETag of the next
\* version: the update returned (false, that version).
C23_Witness ==
    /\ call.op = "update"
    /\ call.arg.conditional
    /\ call.sent # None
    /\ call.sent[1].if_match = Some(WeakEtag("1"))
    /\ call.received # None
    /\ call.received[1].status = 200
    /\ call.out = Ok([created |-> FALSE, version_id |-> "2"])

\* C29: read_referenced maps each failure to its own error and sends no
\* request for the first two: no reference string gives MissingReference, a
\* local (#id) reference LocalReference, a 404 or 410 answer
\* ResourceNotFound, a fetched resource of another type than a present
\* reference.type WrongResourceType; a relative reference is fetched under
\* the client's base URL, an absolute one at the URL it names, and the
\* resource is returned only when none of these failures occurs.
C29_ReadReferencedFailures ==
    call.op = "read_referenced" =>
        LET string == call.arg.reference
            answered(codes) == /\ call.received # None
                               /\ call.received[1].status \in codes
            fetched == /\ call.received # None
                       /\ IsSuccess(call.received[1].status)
                       /\ call.received[1].body.kind = "resource"
            other == /\ fetched /\ call.arg.type # None
                     /\ call.received[1].body.type # call.arg.type[1]
        IN  /\ string = None =>
                    call.out = Err(ErrorUnit("MissingReference"))
                        /\ call.sent = None
            /\ (string # None /\ string[1].form = "local") =>
                    call.out = Err(ErrorUnit("LocalReference"))
                        /\ call.sent = None
            /\ answered({404, 410}) =>
                    ~call.out.ok /\ call.out.err.variant = "ResourceNotFound"
            /\ other =>
                    ~call.out.ok /\ call.out.err.variant = "WrongResourceType"
            /\ call.sent # None =>
                    /\ call.sent[1].method = "GET"
                    /\ call.sent[1].url.path = <<string[1].type, string[1].id>>
                    /\ string[1].form = "relative" =>
                            call.sent[1].url.base = BaseUrl
                    /\ string[1].form = "absolute" =>
                            call.sent[1].url.base = string[1].base
            /\ call.out.ok =>
                    /\ fetched /\ ~other
                    /\ call.out.v = call.received[1].body

\* The reference names Patient/1 relative to the base and states the type
\* Observation: the Patient was fetched under the base URL and refused as
\* of the wrong type.
C29_Witness ==
    /\ call.op = "read_referenced"
    /\ call.arg = Reference(Some(RelativeRef("Patient", "1")),
                            Some("Observation"))
    /\ call.sent # None
    /\ call.sent[1].url = Url(BaseUrl, <<"Patient", "1">>)
    /\ call.received # None
    /\ call.received[1].status = 200
    /\ ~call.out.ok
    /\ call.out.err.variant = "WrongResourceType"

====
